---------------------------- MODULE Spec2Model ----------------------------
(***************************************************************************)
(* A model of the Gen 1 sound synthesizer: the command decoder             *)
(* (src/src/command.rs), the channel iterator (src/src/gen1/channel.rs),   *)
(* the mixer (src/src/gen2/sound.rs) and the facade (src/src/gen1/mod.rs). *)
(*                                                                         *)
(* Numbers.  TLA+ has no floating point.  A channel sample is              *)
(* (2*bin - 1) * (-volume / 16): it is kept as its numerator over 16.  A   *)
(* mixed sample is a sum of channel samples divided by 3: it is kept as    *)
(* its numerator over MixUnit = 192 = 16 * 12, so that a division by 1, 2, *)
(* 3 or 4 stays exact.  The f32 rounding of x / 3.0 is not modelled.       *)
(*                                                                         *)
(* The pulse phase period_count (an f64 accumulator) only selects the sign *)
(* bit `bin` of each sample of a frame; it is not kept in the state, and   *)
(* the bin of a served sample is a free choice of the action that serves   *)
(* it.                                                                     *)
(***************************************************************************)
EXTENDS Integers, Sequences, FiniteSets, TLC

\* ------------------------------------------------------------------------
\* Program constants

SAMPLES_PER_FRAME == 17556

SOURCE_SAMPLE_RATE == 1048576

\* Sound::pcm's bias on the caller's length (synthesis).
LengthBias == 128

\* The fixed length the mixer gives the noise channel.
NoiseLength == 256

\* Each channel's frame is added to the mixer's buffer divided by this.
MixDivisor == 3

\* Denominator of a mixed sample in the model (16 * lcm(1, 2, 3, 4)).
MixUnit == 16 * 12

\* ------------------------------------------------------------------------
\* Fixed-width arithmetic

Pow2(n) ==
    <<1, 2, 4, 8, 16, 32, 64, 128, 256, 512, 1024, 2048, 4096, 8192, 16384,
      32768, 65536>>[n + 1]

Shr(x, n) == x \div Pow2(n)

Shl8(x, n) == (x * Pow2(n)) % 256

\* x & (2^n - 1)
LowBits(x, n) == x % Pow2(n)

\* bit n of x
Bit(x, n) == (x \div Pow2(n)) % 2

\* `x as u8` for an i8 x
AsU8(x) == (x + 256) % 256

\* u8::rotate_left(2)
RotateLeft2(d) == ((d * 4) % 256) + (d \div 64)

Abs(x) == IF x < 0 THEN -x ELSE x

Min(a, b) == IF a < b THEN a ELSE b

\* The element of a one-element set.  The(F(x) : x \in {e}) is F of the
\* value of e, `let x = e; F(x)`: e is evaluated once
The(S) == CHOOSE y \in S : TRUE

\* ------------------------------------------------------------------------
\* Command decoder (command.rs)

\* The nibble read as two's complement: the variant the signed-magnitude
\* reading is tested against
from_i4_twos(data) ==
    IF data % 16 >= 8 THEN (data % 16) - 16 ELSE data % 16

\* i8::from_i4: a signed-magnitude nibble
from_i4(data) ==
    LET value == data % 8
    IN  IF Bit(data, 3) = 0 THEN value ELSE -value

\* The bytes taken high byte first: the variant the little-endian reading
\* is tested against
LeU16Swapped(lo, hi) == 256 * lo + hi

\* u16::from_le_bytes([lo, hi])
LeU16(lo, hi) == lo + 256 * hi

\* u16::from_be_bytes([hi, lo])
BeU16(hi, lo) == 256 * hi + lo

ChannelTypes ==
    {"MusicPulse", "MusicWave", "MusicNoise", "SfxPulse", "SfxWave", "SfxNoise"}

\* ChannelType::to_muisc
to_muisc(channel) ==
    CASE channel = "SfxPulse" -> "MusicPulse"
      [] channel = "SfxWave"  -> "MusicWave"
      [] channel = "SfxNoise" -> "MusicNoise"
      [] OTHER                -> channel

\* rom[pos..][k]; the sequence rom holds the byte at offset i at rom[i + 1]
D(rom, pos, k) == rom[pos + k + 1]

\* Indexing rom[pos..] at k panics when pos + k is past the end of the ROM.
InRom(rom, pos, k) == pos + k < Len(rom)

\* The decoder panicked on an out-of-range read
PanicCmd == [op |-> "Panic"]

\* The todo!() arm of a parse function: the opcode is not defined for the kind
UnknownCmd(byte) == [op |-> "Unknown", byte |-> byte]

NoteNames ==
    <<"CFlat", "CSharp", "DFlat", "DSharp", "EFlat", "FFlat",
      "FSharp", "GFlat", "GSharp", "AFlat", "ASharp", "BFlat">>

\* The arms parse_music_pulse and parse_music_wave have in common.  `hi` is
\* the highest offset the arm reads.
ParseMusicCommon(rom, pos) ==
    LET b == D(rom, pos, 0)
    IN  CASE b <= 191 ->
               [op |-> "Note", pitch |-> NoteNames[(b \div 16) + 1],
                length |-> b % 16, hi |-> 0]
          [] b \in 192..207 -> [op |-> "Rest", length |-> b % 16, hi |-> 0]
          [] b \in 208..223 ->
               IF InRom(rom, pos, 1)
               THEN [op |-> "NoteType", speed |-> b % 16,
                     volume |-> D(rom, pos, 1) % 16,
                     fade |-> from_i4(D(rom, pos, 1)), hi |-> 1]
               ELSE PanicCmd
          [] b \in 224..231 -> [op |-> "Octave", octave |-> b % 16, hi |-> 0]
          [] b = 232 -> [op |-> "TogglePerfectPitch", hi |-> 0]
          [] b = 234 ->
               IF InRom(rom, pos, 2)
               THEN [op |-> "Vibrato", delay |-> D(rom, pos, 1),
                     depth |-> Shr(D(rom, pos, 2), 4),
                     rate |-> D(rom, pos, 2) % 16, hi |-> 2]
               ELSE PanicCmd
          [] b = 235 ->
               IF InRom(rom, pos, 2)
               THEN [op |-> "PitchSlide", length |-> D(rom, pos, 1),
                     octave |-> Shr(D(rom, pos, 2), 4),
                     pitch |-> D(rom, pos, 2) % 16, hi |-> 2]
               ELSE PanicCmd
          [] b = 237 ->
               IF InRom(rom, pos, 2)
               THEN [op |-> "Tempo",
                     tempo |-> BeU16(D(rom, pos, 1), D(rom, pos, 2)), hi |-> 2]
               ELSE PanicCmd
          [] b = 248 -> [op |-> "ExecuteMusic", hi |-> 0]
          [] b = 253 ->
               IF InRom(rom, pos, 2)
               THEN [op |-> "SoundCall",
                     addr |-> LeU16(D(rom, pos, 1), D(rom, pos, 2)), hi |-> 2]
               ELSE PanicCmd
          [] b = 254 ->
               IF InRom(rom, pos, 3)
               THEN [op |-> "Loop", count |-> D(rom, pos, 1),
                     addr |-> LeU16(D(rom, pos, 2), D(rom, pos, 3)), hi |-> 3]
               ELSE PanicCmd
          [] b = 255 -> [op |-> "Return", hi |-> 0]
          [] OTHER -> UnknownCmd(b)

\* The 0xec arm
ParseDutyCycle(rom, pos) ==
    IF InRom(rom, pos, 1)
    THEN [op |-> "DutyCycle", a |-> D(rom, pos, 1), hi |-> 1]
    ELSE PanicCmd

\* The 0xfc arm
ParseDutyCyclePattern(rom, pos) ==
    IF InRom(rom, pos, 1)
    THEN LET x == D(rom, pos, 1)
         IN  [op |-> "DutyCyclePattern", a |-> Shr(x, 6),
              b |-> Shr(x, 4) % 4, c |-> Shr(x, 2) % 4, d |-> x % 4, hi |-> 1]
    ELSE PanicCmd

\* The 0xfd, 0xfe and 0xff arms, the same in every kind that has them
ParseFlow(rom, pos) ==
    LET b == D(rom, pos, 0)
    IN  CASE b = 253 ->
               IF InRom(rom, pos, 2)
               THEN [op |-> "SoundCall",
                     addr |-> LeU16(D(rom, pos, 1), D(rom, pos, 2)), hi |-> 2]
               ELSE PanicCmd
          [] b = 254 ->
               IF InRom(rom, pos, 3)
               THEN [op |-> "Loop", count |-> D(rom, pos, 1),
                     addr |-> LeU16(D(rom, pos, 2), D(rom, pos, 3)), hi |-> 3]
               ELSE PanicCmd
          [] b = 255 -> [op |-> "Return", hi |-> 0]
          [] OTHER -> UnknownCmd(b)

parse_music_pulse(rom, pos) ==
    LET b == D(rom, pos, 0)
    IN  CASE b = 236 -> ParseDutyCycle(rom, pos)
          [] b = 240 ->
               IF InRom(rom, pos, 1)
               THEN [op |-> "Volume", left |-> Shr(D(rom, pos, 1), 4),
                     right |-> D(rom, pos, 1) % 16, hi |-> 1]
               ELSE PanicCmd
          [] b = 252 -> ParseDutyCyclePattern(rom, pos)
          [] OTHER -> ParseMusicCommon(rom, pos)

parse_music_wave(rom, pos) == ParseMusicCommon(rom, pos)

parse_music_noise(rom, pos) ==
    LET b == D(rom, pos, 0)
    IN  CASE b \in 176..191 ->
               IF InRom(rom, pos, 1)
               THEN [op |-> "DrumNote", instrument |-> D(rom, pos, 1),
                     length |-> Shr(b, 4), hi |-> 1]
               ELSE PanicCmd
          [] b \in 192..207 -> [op |-> "Rest", length |-> b % 16, hi |-> 0]
          [] b \in 208..223 -> [op |-> "DrumSpeed", speed |-> b % 16, hi |-> 0]
          [] OTHER -> ParseFlow(rom, pos)

parse_sfx_pulse(rom, pos) ==
    LET b == D(rom, pos, 0)
    IN  CASE b = 16 ->
               IF InRom(rom, pos, 1)
               THEN [op |-> "PitchSweep", length |-> Shr(D(rom, pos, 1), 4),
                     change |-> from_i4(D(rom, pos, 1)), hi |-> 1]
               ELSE PanicCmd
          [] b \in 32..47 ->
               IF InRom(rom, pos, 3)
               THEN [op |-> "SquareNote", length |-> b % 16,
                     volume |-> Shr(D(rom, pos, 1), 4),
                     fade |-> from_i4(D(rom, pos, 1)),
                     freq |-> LeU16(D(rom, pos, 2), D(rom, pos, 3)), hi |-> 3]
               ELSE PanicCmd
          [] b = 236 -> ParseDutyCycle(rom, pos)
          [] b = 248 -> [op |-> "ExecuteMusic", hi |-> 0]
          [] b = 252 -> ParseDutyCyclePattern(rom, pos)
          [] OTHER -> ParseFlow(rom, pos)

parse_sfx_wave(rom, pos) ==
    LET b == D(rom, pos, 0)
    IN  IF b = 248 THEN [op |-> "ExecuteMusic", hi |-> 0] ELSE UnknownCmd(b)

parse_sfx_noise(rom, pos) ==
    LET b == D(rom, pos, 0)
    IN  CASE b \in 32..47 ->
               IF InRom(rom, pos, 2)
               THEN [op |-> "NoiseNote", length |-> b % 16,
                     volume |-> Shr(D(rom, pos, 1), 4),
                     fade |-> from_i4(D(rom, pos, 1)),
                     value |-> D(rom, pos, 2), hi |-> 2]
               ELSE PanicCmd
          [] b = 236 -> ParseDutyCycle(rom, pos)
          [] b = 252 -> ParseDutyCyclePattern(rom, pos)
          [] OTHER -> ParseFlow(rom, pos)

\* The flat offset of (bank, addr)
RomPos(bank, addr) == bank * 16384 + (addr % 16384)

\* Command::parse
Parse(rom, bank, addr, channel) ==
    LET pos == RomPos(bank, addr)
    IN  IF ~InRom(rom, pos, 0) THEN PanicCmd
        ELSE CASE channel = "MusicPulse" -> parse_music_pulse(rom, pos)
               [] channel = "MusicWave"  -> parse_music_wave(rom, pos)
               [] channel = "MusicNoise" -> parse_music_noise(rom, pos)
               [] channel = "SfxPulse"   -> parse_sfx_pulse(rom, pos)
               [] channel = "SfxWave"    -> parse_sfx_wave(rom, pos)
               [] channel = "SfxNoise"   -> parse_sfx_noise(rom, pos)

\* Every command one byte long: the variant the lengths are tested against
CmdLenOpcodeOnly(cmd) == 1

\* Command::len
CmdLen(cmd) ==
    CASE cmd.op = "PitchSweep" -> 2
      [] cmd.op = "SquareNote" -> 4
      [] cmd.op = "NoiseNote" -> 3
      [] cmd.op = "Note" -> 1
      [] cmd.op = "DrumNote" -> 2
      [] cmd.op = "Rest" -> 1
      [] cmd.op = "NoteType" -> 2
      [] cmd.op = "DrumSpeed" -> 1
      [] cmd.op = "Octave" -> 1
      [] cmd.op = "TogglePerfectPitch" -> 1
      [] cmd.op = "Vibrato" -> 3
      [] cmd.op = "PitchSlide" -> 3
      [] cmd.op = "DutyCycle" -> 2
      [] cmd.op = "Tempo" -> 3
      [] cmd.op = "Volume" -> 2
      [] cmd.op = "ExecuteMusic" -> 1
      [] cmd.op = "DutyCyclePattern" -> 2
      [] cmd.op = "SoundCall" -> 3
      [] cmd.op = "Loop" -> 4
      [] cmd.op = "Return" -> 1

\* ------------------------------------------------------------------------
\* Channel iterator (gen1/channel.rs)

\* sample(bin, volume), times 16
sample(bin, volume) == ((2 * bin) - 1) * (volume * (-1))

\* Channel::pcm / ChannelIterator::new.  The f64 phase period_count is not
\* kept (see the module comment).
ChannelIteratorNew(addr, channel, pitch, length) ==
    [addr |-> addr, channel |-> channel, length |-> length,
     pitch |-> pitch, pitch_sweep |-> 0, pitch_sweep_delay |-> 0,
     pitch_sweep_period |-> 0,
     loop_counter |-> 1, note_delay |-> 0, note_delay_fraction |-> 0,
     duty |-> 0, volume |-> 0, volume_fade |-> 0, volume_fade_delay |-> 0,
     freq |-> 0, noise_params |-> 0, noise_buffer |-> 32767,
     is_done |-> FALSE, is_infinite |-> "None"]

\* ChannelIterator::only_fadeout_left
only_fadeout_left(c) == c.is_done

\* ChannelIterator::reset_pitch
reset_pitch(c) == [c EXCEPT !.pitch = 0]

\* SOURCE_SAMPLE_RATE * n / 131072 in usize, the product taken in two parts
\* that stay within 32 bits
PerCycle(n) ==
    (SOURCE_SAMPLE_RATE \div 131072) * n
        + ((SOURCE_SAMPLE_RATE % 131072) * n) \div 131072

\* The period with the pitch added as a signed number: the variant the
\* reading of pitch as a byte is tested against
PulsePeriodSigned(c) == PerCycle(2048 - ((c.freq + c.pitch) % 2048))

\* Number of samples of one period of a pulse frame
PulsePeriod(c) == PerCycle(2048 - ((c.freq + AsU8(c.pitch)) % 2048))

\* The two high bits taken for the duty index: the variant the order of
\* the slots of a duty pattern is tested against
DutyIndexHigh(c) == c.duty \div 64

\* The duty index calc_duty is called with for every sample of a pulse frame
DutyIndex(c) == c.duty % 4

\* The SfxPulse arm of frame generation: the samples are +-volume/16, and the
\* duty rotates once per frame
PulseFrame(c) == [c EXCEPT !.duty = RotateLeft2(c.duty)]

\* The shift taken as it is encoded: the variant the replacement of 0xE
\* and 0xF is tested against
NoiseShiftAsEncoded(params) == Shr(params, 4)

\* The shift the SfxNoise arm uses
NoiseShift(params) ==
    LET shift == Shr(params, 4)
    IN  IF shift > 13
        THEN \* shift & 0xd
             8 * Bit(shift, 3) + 4 * Bit(shift, 2) + Bit(shift, 0)
        ELSE shift

\* (2.0 * divider * (1 << (shift + 1)) as f64) as usize, divider 0.5 when zero
NoiseStep(params) ==
    LET divider == params % 8
    IN  IF divider = 0
        THEN Pow2(NoiseShift(params) + 1)
        ELSE 2 * divider * Pow2(NoiseShift(params) + 1)

\* x | (v << n) for a bit v
OrBit(x, n, v) == IF v = 1 /\ Bit(x, n) = 0 THEN x + Pow2(n) ELSE x

\* An advance that feeds the new bit in at bit 15: the variant the range of
\* noise_buffer is tested against
NoiseAdvanceHigh(buffer, width) ==
    LET bit0 == buffer % 2
        bit1 == Bit(buffer, 1)
        x    == (bit0 + bit1) % 2
        b1   == OrBit(Shr(buffer, 1), 15, x)
    IN  IF width THEN OrBit(Shr(b1, 1), 6, x) ELSE b1

\* One LFSR advance
NoiseAdvance(buffer, width) ==
    LET bit0 == buffer % 2
        bit1 == Bit(buffer, 1)
        x    == (bit0 + bit1) % 2
        b1   == OrBit(Shr(buffer, 1), 14, x)
    IN  IF width THEN OrBit(Shr(b1, 1), 6, x) ELSE b1

\* n LFSR advances, one after the other (split in halves: a function's
\* argument is a value, so the depth of the evaluation stays logarithmic)
NoiseAdvanceHalves[n \in Nat, width \in BOOLEAN, buffer \in Nat] ==
    IF n = 0 THEN buffer
    ELSE IF n = 1 THEN NoiseAdvance(buffer, width)
    ELSE NoiseAdvanceHalves[n - (n \div 2), width,
                            NoiseAdvanceHalves[n \div 2, width, buffer]]

NoiseAdvanceN(buffer, width, n) == NoiseAdvanceHalves[n, width, buffer]

\* The samples of a frame on which the LFSR advances: index % step == 0 for
\* the frame's own index 0 .. SAMPLES_PER_FRAME - 1
NoiseAdvancesPerFrame(params) == ((SAMPLES_PER_FRAME - 1) \div NoiseStep(params)) + 1

\* The SfxNoise arm of frame generation
NoiseFrame(c) ==
    [c EXCEPT !.noise_buffer =
        NoiseAdvanceN(c.noise_buffer, Bit(c.noise_params, 3) = 1,
                      NoiseAdvancesPerFrame(c.noise_params))]

\* The kinds frame generation is written for; any other is todo!()
FrameKinds == {"SfxPulse", "SfxNoise"}

GenFrame(c) == IF c.channel = "SfxPulse" THEN PulseFrame(c) ELSE NoiseFrame(c)

\* if self.note_delay > 0 { self.note_delay -= 1 }
NoteClock(c) ==
    IF c.note_delay > 0 THEN [c EXCEPT !.note_delay = c.note_delay - 1] ELSE c

\* The volume fade clock without its two range tests (volume < 15,
\* volume > 0): the variant the range property of volume is tested against
VolumeFadeUnguarded(c) ==
    CASE c.volume_fade_delay = 0 -> c
      [] c.volume_fade_delay = 1 ->
           [c EXCEPT !.volume_fade_delay = AsU8(c.volume_fade) % 8,
                     !.volume = IF c.volume_fade < 0 THEN c.volume + 1
                                ELSE IF c.volume_fade > 0 THEN c.volume - 1
                                ELSE c.volume]
      [] OTHER -> [c EXCEPT !.volume_fade_delay = c.volume_fade_delay - 1]

\* The volume fade clock
VolumeFade(c) ==
    CASE c.volume_fade_delay = 0 -> c
      [] c.volume_fade_delay = 1 ->
           [c EXCEPT !.volume_fade_delay = AsU8(c.volume_fade) % 8,
                     !.volume = IF c.volume_fade < 0 /\ c.volume < 15
                                THEN c.volume + 1
                                ELSE IF c.volume_fade > 0 /\ c.volume > 0
                                THEN c.volume - 1
                                ELSE c.volume]
      [] OTHER -> [c EXCEPT !.volume_fade_delay = c.volume_fade_delay - 1]

\* A sweep clock reloaded with one frame more than the period: the variant
\* the cadence of the sweep is tested against
PitchSweepClockLate(c) ==
    CASE c.pitch_sweep_delay = 0 -> c
      [] c.pitch_sweep_delay = 1 ->
           LET offset == Shr(c.freq, Abs(c.pitch_sweep))
           IN  [c EXCEPT !.pitch_sweep_delay = c.pitch_sweep_period + 1,
                         !.freq = IF c.pitch_sweep < 0
                                  THEN (c.freq - offset + 65536) % 65536
                                  ELSE (c.freq + offset) % 65536]
      [] OTHER -> [c EXCEPT !.pitch_sweep_delay = c.pitch_sweep_delay - 1]

\* The pitch sweep clock
PitchSweepClock(c) ==
    CASE c.pitch_sweep_delay = 0 -> c
      [] c.pitch_sweep_delay = 1 ->
           LET offset == Shr(c.freq, Abs(c.pitch_sweep))
           IN  [c EXCEPT !.pitch_sweep_delay = c.pitch_sweep_period,
                         !.freq = IF c.pitch_sweep < 0
                                  THEN (c.freq - offset + 65536) % 65536
                                  ELSE (c.freq + offset) % 65536]
      [] OTHER -> [c EXCEPT !.pitch_sweep_delay = c.pitch_sweep_delay - 1]

\* What next() does after the samples of a frame are written
PostFrame(c) ==
    LET Faded(c1) == LET Swept(c2) == PitchSweepClock(c2)
                     IN  The({Swept(c2) : c2 \in {VolumeFade(c1)}})
    IN  The({Faded(c1) : c1 \in {NoteClock(c)}})

\* subframes of a note of length nibble `length`
Subframes(c, length) == (c.length * (length + 1)) + c.note_delay_fraction

\* Note timing that drops the fraction left by the note before: the variant
\* the carry property is tested against
NoteTimingNoCarry(c, length) ==
    [c EXCEPT !.note_delay = Shr(c.length * (length + 1), 8) % 256,
              !.note_delay_fraction = (c.length * (length + 1)) % 256]

\* The timing a SquareNote or NoiseNote sets
NoteTiming(c, length) ==
    [c EXCEPT !.note_delay = Shr(Subframes(c, length), 8) % 256,
              !.note_delay_fraction = Subframes(c, length) % 256]

\* The envelope a SquareNote or NoiseNote sets
NoteEnvelope(c, cmd) ==
    [c EXCEPT !.volume = cmd.volume,
              !.volume_fade = cmd.fade,
              !.volume_fade_delay = AsU8(cmd.fade) % 8]

\* The commands next() has an arm for; any other is todo!()
ExecutedOps ==
    {"Return", "ExecuteMusic", "DutyCycle", "DutyCyclePattern", "PitchSweep",
     "Loop", "SquareNote", "NoiseNote"}

\* self.addr += cmd.len() as u16  (no address near 0xffff is inside a ROM
\* this small, so the sum never overflows here)
Advance(c, cmd) == [c EXCEPT !.addr = (c.addr + CmdLen(cmd)) % 65536]

\* (a << 6) | (a << 4) | (a << 2) | a on u8, for any byte a
DutyBroadcast(a) ==
    LET s6 == Shl8(a, 6)
        s4 == Shl8(a, 4)
        s2 == Shl8(a, 2)
        Or4(n) == IF Bit(s6, n) + Bit(s4, n) + Bit(s2, n) + Bit(a, n) > 0
                  THEN Pow2(n) ELSE 0
    IN  Or4(0) + Or4(1) + Or4(2) + Or4(3) + Or4(4) + Or4(5) + Or4(6) + Or4(7)

\* (a << 6) | (b << 4) | (c << 2) | d for 2-bit a, b, c, d
DutyPattern(a, b, c, d) == 64 * a + 16 * b + 4 * c + d

\* A finite Loop taken once more than its count says: the variant the
\* number of jumps is tested against
LoopTakenInclusive(c, cmd) == c.loop_counter <= cmd.count

\* if self.loop_counter < count
LoopTaken(c, cmd) == c.loop_counter < cmd.count

\* A Return that keeps what an endless Loop has set: the variant the
\* agreement of is_done and is_infinite is tested against
ReturnedKeeping(c) ==
    [c EXCEPT !.is_done = TRUE,
              !.is_infinite = IF c.is_infinite = "None" THEN "False"
                              ELSE c.is_infinite]

\* Command::Return: is_done = true, is_infinite = Some(false); the cursor
\* stays on the Return
Returned(c) == [c EXCEPT !.is_done = TRUE, !.is_infinite = "False"]

\* The effect of one decoded command, the cursor included
Execute(c, cmd) ==
    CASE cmd.op = "Return" -> Returned(c)
      [] cmd.op = "ExecuteMusic" ->
           Advance([c EXCEPT !.channel = to_muisc(c.channel)], cmd)
      [] cmd.op = "DutyCycle" ->
           Advance([c EXCEPT !.duty = DutyBroadcast(cmd.a)], cmd)
      [] cmd.op = "DutyCyclePattern" ->
           Advance([c EXCEPT !.duty = DutyPattern(cmd.a, cmd.b, cmd.c, cmd.d)], cmd)
      [] cmd.op = "PitchSweep" ->
           Advance([c EXCEPT !.pitch_sweep = cmd.change,
                             !.pitch_sweep_delay = cmd.length,
                             !.pitch_sweep_period = cmd.length], cmd)
      [] cmd.op = "Loop" ->
           IF cmd.count = 0
           THEN [c EXCEPT !.addr = cmd.addr, !.is_infinite = "True"]
           ELSE IF LoopTaken(c, cmd)
           THEN [c EXCEPT !.loop_counter = c.loop_counter + 1, !.addr = cmd.addr]
           ELSE Advance(c, cmd)
      [] cmd.op = "SquareNote" ->
           Advance([NoteEnvelope(NoteTiming(c, cmd.length), cmd)
                        EXCEPT !.freq = cmd.freq], cmd)
      [] cmd.op = "NoiseNote" ->
           Advance([NoteEnvelope(NoteTiming(c, cmd.length), cmd)
                        EXCEPT !.noise_params = (cmd.value + AsU8(c.pitch)) % 256,
                               !.noise_buffer = 32767], cmd)

\* What one call of next() came to: out is "Frame" (Some(frame)), "None",
\* "Abort" (a panic: todo!() or an out-of-range read) or "Hang" (the decode
\* loop came back to a state it was in: the call never returns).  vol is the
\* volume the frame's samples were written with, cmds the commands the call
\* decoded, in order.
Outcome(out, c, vol, cmds) == [out |-> out, ch |-> c, vol |-> vol, cmds |-> cmds]

\* The failure leaving the cursor one byte further: the variant the cursor
\* of a failed call is tested against
FailedSkipping(c, cmds) ==
    Outcome("Abort", [c EXCEPT !.addr = (c.addr + 1) % 65536], 0, cmds)

\* The todo!() of a parse function, or of the command match for a command
\* next() does not execute: the call unwinds from `let cmd = ...` with the
\* iterator as it was, no frame written and nothing returned
Failed(c, cmds) == Outcome("Abort", c, 0, cmds)

\* A None that moves the cursor: the variant the state of a channel at its
\* end is tested against
FrameOrNoneMoving(c, cmds) ==
    IF c.is_done /\ c.volume = 0
    THEN Outcome("None", [c EXCEPT !.addr = (c.addr + 1) % 65536], 0, cmds)
    ELSE IF c.channel \notin FrameKinds
    THEN Outcome("Abort", c, 0, cmds)
    ELSE LET Written(c1) == Outcome("Frame", PostFrame(c1), c.volume, cmds)
                                @@ [duty |-> DutyIndex(c)]
         IN  The({Written(c1) : c1 \in {GenFrame(c)}})

\* The frame branch of next(): note_delay > 0 or is_done
FrameOrNone(c, cmds) ==
    IF c.is_done /\ c.volume = 0
    THEN Outcome("None", c, 0, cmds)
    ELSE IF c.channel \notin FrameKinds
    THEN Outcome("Abort", c, 0, cmds)
    ELSE LET Written(c1) == Outcome("Frame", PostFrame(c1), c.volume, cmds)
                                @@ [duty |-> DutyIndex(c)]
         IN  The({Written(c1) : c1 \in {GenFrame(c)}})

\* A decoded command as the bookkeeping keeps it: with the cursor it was
\* decoded at and the loop_counter of that moment
Traced(cmd, c) == cmd @@ [at |-> c.addr, lc |-> c.loop_counter]

\* A finished channel that decodes again once it is silent: the variant
\* the state kept after Return is tested against
FrameDueUntilSilent(c) == c.note_delay > 0 \/ (c.is_done /\ c.volume > 0)

\* The test at the head of next()'s loop: a frame is due (or None), no
\* command is decoded
FrameDue(c) == c.note_delay > 0 \/ c.is_done

\* ChannelIterator::next: the loop, from the state c, having decoded cmds
\* from the states seen
RECURSIVE NextLoop(_, _, _, _, _)
NextLoop(rom, bank, c, cmds, seen) ==
    IF FrameDue(c)
    THEN FrameOrNone(c, cmds)
    ELSE IF c \in seen
    THEN Outcome("Hang", c, 0, cmds)
    ELSE LET Decoded(cmd) ==
                 IF cmd.op \notin ExecutedOps
                 THEN Failed(c, Append(cmds, Traced(cmd, c)))
                 ELSE LET Executed(c1) ==
                              NextLoop(rom, bank, c1,
                                       Append(cmds, Traced(cmd, c)),
                                       seen \cup {c})
                      IN  The({Executed(c1) : c1 \in {Execute(c, cmd)}})
         IN  The({Decoded(cmd) : cmd \in {Parse(rom, bank, c.addr, c.channel)}})

ChannelNext(rom, bank, c) == NextLoop(rom, bank, c, <<>>, {})

\* ------------------------------------------------------------------------
\* Sound header parser and mixer (gen2/sound.rs), facade (gen1/mod.rs)

\* The noise channel visited first: the variant the order of the calls is
\* tested against
SlotsNoiseFirst == <<"noise", "pulse1", "pulse2", "wave">>

\* The mixer's slots, in the order next() and count() visit them
Slots == <<"pulse1", "pulse2", "wave", "noise">>

\* An empty slot (Option::None)
NoChan == [channel |-> "Absent"]

\* The arm of Sound::new's match for a channel id: the slot and the kind
IdSlot(id) ==
    CASE id \in {1, 5} -> "pulse1"
      [] id \in {2, 6} -> "pulse2"
      [] id \in {3, 7} -> "wave"
      [] id \in {4, 8} -> "noise"

\* Every id given the music kind of its slot: the variant the SFX ids are
\* tested against
IdKindMusic(id) ==
    CASE id \in {1, 2, 5, 6} -> "MusicPulse"
      [] id \in {3, 7} -> "MusicWave"
      [] id \in {4, 8} -> "MusicNoise"

IdKind(id) ==
    CASE id = 1 -> "MusicPulse" [] id = 2 -> "MusicPulse"
      [] id = 3 -> "MusicWave"  [] id = 4 -> "MusicNoise"
      [] id = 5 -> "SfxPulse"   [] id = 6 -> "SfxPulse"
      [] id = 7 -> "SfxWave"    [] id = 8 -> "SfxNoise"

EmptySound == [s \in {"pulse1", "pulse2", "wave", "noise"} |-> NoChan]

\* A slot counted as taken only by a channel of the same kind: the variant
\* the duplicate check is tested against
TakenSameKind(result, id) ==
    /\ result[IdSlot(id)] # NoChan
    /\ result[IdSlot(id)].channel = IdKind(id)

\* The assert! of every arm: Option::replace returned Some, the id's slot
\* already holds a channel
Taken(result, id) == result[IdSlot(id)] # NoChan

\* The loop of Sound::new: `left` records remain, the next one at offset pos.
\* ok is FALSE when the constructor panicked (an out-of-range read, an id
\* outside 1..=8, or a slot assigned twice).
RECURSIVE SoundRecords(_, _, _, _, _)
SoundRecords(rom, bank, pos, left, result) ==
    IF left = 0 THEN [ok |-> TRUE, slots |-> result]
    ELSE IF ~InRom(rom, pos, 2) THEN [ok |-> FALSE, slots |-> result]
    ELSE LET id  == (D(rom, pos, 0) % 16) + 1
             ptr == LeU16(D(rom, pos, 1), D(rom, pos, 2))
         IN  IF id \notin 1..8 THEN [ok |-> FALSE, slots |-> result]
             ELSE IF Taken(result, id)
             THEN [ok |-> FALSE, slots |-> result]
             ELSE SoundRecords(rom, bank, pos + 3, left - 1,
                    [result EXCEPT ![IdSlot(id)] =
                        [channel |-> IdKind(id), bank |-> bank,
                         addr |-> ptr]])

\* Sound::new
SoundNew(rom, bank, addr) ==
    LET pos == RomPos(bank, addr)
    IN  IF ~InRom(rom, pos, 0) THEN [ok |-> FALSE, slots |-> EmptySound]
        ELSE SoundRecords(rom, bank, pos, Shr(D(rom, pos, 0), 6) + 1, EmptySound)

\* synthesis: the length the facade hands to Sound::pcm
EffectiveLength(length) == length + LengthBias

\* Every slot built with the caller's effective length: the variant the
\* noise channel's fixed length is tested against
SlotLengthCaller(slot, length) == length

\* SoundIterator::new: the length each slot's channel is built with
SlotLength(slot, length) == IF slot = "noise" THEN NoiseLength ELSE length

\* SoundIterator::new, from the facade's (pitch, length): the four channel
\* iterators; index is 0 and the buffer is all zero
SoundIteratorNew(sound, pitch, length) ==
    [s \in DOMAIN sound |->
        IF sound[s] = NoChan THEN NoChan
        ELSE ChannelIteratorNew(sound[s].addr, sound[s].channel, pitch,
                                SlotLength(s, length))]

\* No frame of this slot is in the mixer's buffer
NoFrame == 0 - 1

EmptyBuffer == [s \in {"pulse1", "pulse2", "wave", "noise"} |-> NoFrame]

\* data / 4.0 and data / 2.0: the variants the mixer's divisor is tested
\* against
WeightedByFour(data) == (data * (MixUnit \div 16)) \div 4

WeightedByTwo(data) == (data * (MixUnit \div 16)) \div 2

\* data / 3.0, for a channel sample data given over 16; the result is over
\* MixUnit
Weighted(data) == (data * (MixUnit \div 16)) \div MixDivisor

\* The tick of SoundIterator::next, from slot number k on: every present
\* channel's next() is called; a frame is added to the buffer (kept as the
\* volume its samples were written with).  halt is "Abort" or "Hang" when a
\* channel's next() panicked or never returned: the tick stops there.
\* order lists the slots whose next() was called, in the order of the
\* calls, and nones holds those whose next() returned None.
RECURSIVE TickFrom(_, _, _, _, _, _)
TickFrom(rom, bank, chans, buffer, done, k) ==
    IF k > Len(Slots)
    THEN [chans |-> chans, buffer |-> buffer, done |-> done, halt |-> "No",
          order |-> <<>>, nones |-> {}]
    ELSE LET s == Slots[k]
         IN  IF chans[s] = NoChan
             THEN TickFrom(rom, bank, chans, buffer, done, k + 1)
             ELSE LET r == ChannelNext(rom, bank, chans[s])
                      chans2 == [chans EXCEPT ![s] = r.ch]
                      Called(rest) ==
                          [rest EXCEPT !.order = <<s>> \o rest.order,
                                       !.nones = IF r.out = "None"
                                                 THEN rest.nones \cup {s}
                                                 ELSE rest.nones]
                  IN  CASE r.out \in {"Abort", "Hang"} ->
                             [chans |-> chans2, buffer |-> buffer,
                              done |-> done, halt |-> r.out,
                              order |-> <<s>>, nones |-> {}]
                        [] r.out = "Frame" ->
                             Called(TickFrom(rom, bank, chans2,
                                             [buffer EXCEPT ![s] = r.vol],
                                             FALSE, k + 1))
                        [] r.out = "None" ->
                             Called(TickFrom(rom, bank, chans2, buffer, done,
                                             k + 1))

\* A frame test that also fires one sample into a frame: the variant the
\* frame alignment is tested against
AtFrameStartOrAfter(index) == index % SAMPLES_PER_FRAME \in {0, 1}

\* self.index % SAMPLES_PER_FRAME == 0
AtFrameStart(index) == index % SAMPLES_PER_FRAME = 0

\* usize::MAX, count()'s answer for a sound it takes to be infinite.  No
\* number of frames times 17556 comes near 2^64 - 1; the model writes -1.
UsizeMax == 0 - 1

\* One pass of count()'s loop, from slot number k on.  ret is "Max" when the
\* pass returned usize::MAX, "No" when it ran through every slot.
RECURSIVE CountFrom(_, _, _, _, _)
CountFrom(rom, bank, chans, done, k) ==
    IF k > Len(Slots)
    THEN [chans |-> chans, done |-> done, halt |-> "No", ret |-> "No"]
    ELSE LET s == Slots[k]
         IN  IF chans[s] = NoChan
             THEN CountFrom(rom, bank, chans, done, k + 1)
             ELSE LET r == ChannelNext(rom, bank, chans[s])
                      chans2 == [chans EXCEPT ![s] = r.ch]
                  IN  IF r.out \in {"Abort", "Hang"}
                      THEN [chans |-> chans2, done |-> done, halt |-> r.out,
                            ret |-> "No"]
                      ELSE IF r.ch.is_infinite = "True"
                      THEN [chans |-> chans2, done |-> done /\ r.out = "None",
                            halt |-> "No", ret |-> "Max"]
                      ELSE CountFrom(rom, bank, chans2,
                                     done /\ r.out = "None", k + 1)

\* ------------------------------------------------------------------------
\* Inputs: ROM images.  A ROM here is one sound header at offset 0 of bank 0
\* followed by the command streams its records point to.  The program reads
\* them back byte by byte through Sound::new and Command::parse.

\* The bank and the address of the header handed to synthesis(); addresses
\* of the switchable bank start at 0x4000 and are masked with 0x3fff
InBank == 1 - 1

HeaderAddr == 4 * 4096

\* Bounds of the model
\* Frames the mixer is followed for (its index is capped there)
MaxFrames == 12

\* Samples a consumer takes one by one after a tick before it takes the rest
\* of the frame in one go
MaxWalk == 2

\* Largest sum of (length nibble + 1) the note bookkeeping follows
MaxSum == 40

\* The bytes of a SquareNote, a NoiseNote and a Loop command
SqBytes(l, v, f, q) == <<32 + l, 16 * v + f, q % 256, q \div 256>>

NsBytes(l, v, f, x) == <<32 + l, 16 * v + f, x>>

LoopBytes(count, addr) == <<254, count, addr % 256, addr \div 256>>

\* A stream descriptor d is a record [t, l, v, f, x, q]: the template t, a
\* note's length nibble l, volume v, fade nibble f and frequency q, and one
\* more number x whose meaning is the template's.
Desc(t, l, v, f, x, q) == [t |-> t, l |-> l, v |-> v, f |-> f, x |-> x, q |-> q]

\* The bytes of the stream d placed at address base
Stream(d, base) ==
    CASE d.t = "note"  -> SqBytes(d.l, d.v, d.f, d.q) \o <<255>>
      [] d.t = "two"   -> SqBytes(d.l, d.v, d.f, d.q)
                            \o SqBytes(d.x, d.v, d.f, d.q) \o <<255>>
      [] d.t = "loop"  -> SqBytes(d.l, d.v, d.f, d.q)
                            \o LoopBytes(d.x, base) \o <<255>>
      [] d.t = "jump"  -> LoopBytes(0, base + 4)
                            \o SqBytes(d.l, d.v, d.f, d.q) \o <<255>>
      [] d.t = "hang"  -> LoopBytes(0, base)
      [] d.t = "loops2" -> SqBytes(d.l, d.v, d.f, 1792) \o LoopBytes(d.x, base)
                            \o SqBytes(d.l, d.v, d.f, 1792)
                            \o LoopBytes(d.q, base + 8) \o <<255>>
      [] d.t = "loopinf" -> SqBytes(d.l, d.v, d.f, d.q) \o LoopBytes(d.x, base)
                            \o LoopBytes(0, base)
      [] d.t = "exec"  -> SqBytes(d.l, d.v, d.f, d.q) \o <<248, 255>>
      [] d.t = "raw"   -> <<d.x>>
      [] d.t = "bad"   -> SqBytes(d.l, d.v, d.f, d.q) \o <<236, 2, d.x>>
      [] d.t = "duty"  -> <<252, d.x>> \o SqBytes(d.l, d.v, d.f, d.q) \o <<255>>
      [] d.t = "dutyc" -> <<236, d.x>> \o SqBytes(d.l, d.v, d.f, d.q) \o <<255>>
      [] d.t = "sweep" -> <<16, d.x>> \o SqBytes(d.l, d.v, d.f, d.q) \o <<255>>
      [] d.t = "sweep2" -> <<16, d.x>> \o SqBytes(d.l, d.v, d.f, d.q)
                            \o SqBytes(d.l, d.v, d.f, 1024) \o <<255>>
      [] d.t = "nnote" -> NsBytes(d.l, d.v, d.f, d.x) \o <<255>>
      [] d.t = "nduty" -> <<252, d.q>> \o NsBytes(d.l, d.v, d.f, d.x) \o <<255>>
      [] d.t = "ntwo"  -> NsBytes(d.l, d.v, d.f, d.x)
                            \o NsBytes(d.q, d.v, d.f, d.x) \o <<255>>
      [] d.t = "nloop" -> NsBytes(d.l, d.v, d.f, d.x) \o LoopBytes(d.q, base)
                            \o <<255>>
      [] d.t = "wave"  -> <<248, 255>>
      [] d.t = "ret"   -> <<255>>

StreamLen(d) == Len(Stream(d, 0))

\* A header entry is [id, d]: the channel id of the record and its stream.
\* The address of the k-th stream of es: after the header and the streams
\* before it
RECURSIVE StreamBase(_, _)
StreamBase(es, k) ==
    IF k = 1 THEN HeaderAddr + 3 * Len(es)
    ELSE StreamBase(es, k - 1) + StreamLen(es[k - 1].d)

\* The header's records: the id byte holds id - 1 in its low nibble, and the
\* first one the number of records less one in its two high bits
RECURSIVE HeaderBytes(_, _)
HeaderBytes(es, k) ==
    IF k > Len(es) THEN <<>>
    ELSE <<(IF k = 1 THEN 64 * (Len(es) - 1) ELSE 0) + (es[k].id - 1),
           StreamBase(es, k) % 256, StreamBase(es, k) \div 256>>
         \o HeaderBytes(es, k + 1)

RECURSIVE StreamsBytes(_, _)
StreamsBytes(es, k) ==
    IF k > Len(es) THEN <<>>
    ELSE Stream(es[k].d, StreamBase(es, k)) \o StreamsBytes(es, k + 1)

BuildRom(es) == HeaderBytes(es, 1) \o StreamsBytes(es, 1)

Entry(id, d) == [id |-> id, d |-> d]

\* ------------------------------------------------------------------------
\* State

VARIABLES
    rom,        \* the ROM image
    pitch,      \* Pcm.pitch, the caller's i8
    length,     \* the caller's u8 length; Pcm.length is EffectiveLength(length)
    sound,      \* Sound::new's result: [ok, slots]
    mix,        \* the SoundIterator of Pcm::iter: [chans, index, buffer]
    out,        \* what its last next() came to: [k, val, bins]
    frames,     \* ticks of it in which some channel yielded a frame
    probe,      \* the SoundIterator total_duration() counts: [pc, chans, result]
    duration,   \* what total_duration() returned: [k, len]
    chan,       \* a channel iterator driven on its own
    last,       \* what its last next() came to: [out, vol, cmds]
    notes,      \* bookkeeping of its notes: [on, sum, emitted]
    hist,       \* bookkeeping of its loops and its pitch sweep
    hdr,        \* a header handed to Sound::new on its own: [pc, sound]
    dec,        \* bytes handed to Command::parse: [pc, kind, cmd]
    i4,         \* a byte handed to from_i4: [pc, data, value, flipped]
    wav,        \* a sample buffer handed to the WAV writer: [pc, len, ...]
    calc,       \* an input handed to one computation of the channel
                \* iterator: [pc, f, in, out]
    sched,      \* bookkeeping of the mixer's calls of its channels' next():
                \* [order, made, ended, quiet]
    quirk       \* the SoundIterator of src/sound.rs, which resets the noise
                \* channel's pitch: [pc, chans, index, buffer,
                \* pitch_has_been_reset, out, ...]

vars == <<rom, pitch, length, sound, mix, out, frames, probe, duration, sched,
          chan, last, notes, hist, hdr, dec, i4, wav, calc, quirk>>

inputVars == <<rom, pitch, length, sound>>

mixVars == <<mix, out, frames, probe, duration, sched>>

chanVars == <<chan, last, notes, hist>>

pureVars == <<hdr, dec, i4, wav, calc, quirk>>

SlotSet == {"pulse1", "pulse2", "wave", "noise"}

NoBins == [s \in SlotSet |-> 0]

\* Before any call
IdleOut == [k |-> "NoCall", val |-> 0, bins |-> NoBins]

\* Bound of the bookkeeping: the mixer's returns of None counted
MaxQuiet == 2

\* No call made, no frame yielded, no channel at its end, None never
\* returned
IdleSched ==
    [order |-> <<>>,
     made  |-> [s \in {"pulse1", "pulse2", "wave", "noise"} |-> 0],
     ended |-> [s \in {"pulse1", "pulse2", "wave", "noise"} |-> FALSE],
     quiet |-> 0]

\* The bookkeeping after a tick t
SchedAfter(sc, t) ==
    [order |-> t.order,
     made  |-> [s \in DOMAIN sc.made |->
                   sc.made[s] + (IF t.buffer[s] # NoFrame THEN 1 ELSE 0)],
     ended |-> [s \in DOMAIN sc.ended |-> sc.ended[s] \/ s \in t.nones],
     quiet |-> IF t.halt = "No" /\ t.done
               THEN IF sc.quiet < MaxQuiet THEN sc.quiet + 1 ELSE sc.quiet
               ELSE sc.quiet]

IdleProbe == [pc |-> "unstarted", chans |-> EmptySound, result |-> 0]

IdleDuration == [k |-> "Unset", len |-> 0]

IdleLast == [out |-> "NoCall", vol |-> 0, cmds |-> <<>>, duty |-> 0 - 1]

IdleNotes == [on |-> TRUE, sum |-> 0, emitted |-> 0]

\* No finite Loop met, no PitchSweep executed
IdleHist ==
    [first |-> 0 - 1, jumps |-> 0, falls |-> 0,
     armed |-> FALSE, since |-> 0, ups |-> 0, base |-> 0,
     pat |-> <<>>, nth |-> 0]

\* Nothing handed over
IdleHdr == [pc |-> "idle"]

IdleDec == [pc |-> "idle"]

IdleI4 == [pc |-> "idle"]

IdleWav == [pc |-> "idle"]

IdleCalc == [pc |-> "idle"]

IdleQuirk == [pc |-> "idle"]

PureIdle ==
    /\ hdr = IdleHdr
    /\ dec = IdleDec
    /\ i4 = IdleI4
    /\ wav = IdleWav
    /\ calc = IdleCalc
    /\ quirk = IdleQuirk

\* ------------------------------------------------------------------------
\* The mixer and the facade as actions

\* The value SoundIterator::next serves from a buffer whose frames have the
\* sign bits bins: the sum of every frame's sample / 3
Served(buffer, bins) ==
    LET part(s) == IF buffer[s] = NoFrame THEN 0
                   ELSE Weighted(sample(bins[s], buffer[s]))
    IN  part("pulse1") + part("pulse2") + part("wave") + part("noise")

\* The sign bits a sample of the buffer can have been written with
BinsOf(buffer) ==
    {b \in [SlotSet -> {0, 1}] : \A s \in SlotSet : buffer[s] = NoFrame => b[s] = 0}

\* One call of SoundIterator::next
SoundNext ==
    /\ sound.ok
    /\ probe.pc # "counting"
    /\ out.k \notin {"Abort", "Hang"}
    /\ mix.index < MaxFrames * SAMPLES_PER_FRAME
    /\ \/ mix.index % SAMPLES_PER_FRAME = 0
       \/ mix.index % SAMPLES_PER_FRAME < MaxWalk
       \/ mix.index % SAMPLES_PER_FRAME = SAMPLES_PER_FRAME - 1
    /\ IF AtFrameStart(mix.index)
       THEN \E t \in {TickFrom(rom, InBank, mix.chans, EmptyBuffer, TRUE, 1)} :
                CASE t.halt # "No" ->
                       /\ mix' = [mix EXCEPT !.chans = t.chans, !.buffer = t.buffer]
                       /\ out' = [k |-> t.halt, val |-> 0, bins |-> NoBins]
                       /\ frames' = frames
                       /\ sched' = SchedAfter(sched, t)
                  [] t.halt = "No" /\ t.done ->
                       /\ mix' = [mix EXCEPT !.chans = t.chans, !.buffer = t.buffer]
                       /\ out' = [k |-> "None", val |-> 0, bins |-> NoBins]
                       /\ frames' = frames
                       /\ sched' = SchedAfter(sched, t)
                  [] t.halt = "No" /\ ~t.done ->
                       \E b \in BinsOf(t.buffer) :
                          /\ mix' = [chans |-> t.chans, buffer |-> t.buffer,
                                     index |-> mix.index + 1]
                          /\ out' = [k |-> "Some", val |-> Served(t.buffer, b),
                                     bins |-> b]
                          /\ frames' = frames + 1
                          /\ sched' = SchedAfter(sched, t)
       ELSE \E b \in BinsOf(mix.buffer) :
               /\ mix' = [mix EXCEPT !.index = mix.index + 1]
               /\ out' = [k |-> "Some", val |-> Served(mix.buffer, b), bins |-> b]
               /\ frames' = frames
               /\ sched' = [sched EXCEPT !.order = <<>>]
    /\ UNCHANGED <<inputVars, probe, duration, chanVars, pureVars>>

\* The calls of SoundIterator::next that take the samples of the current
\* frame up to its last but one: none of them is at a frame start, so each
\* serves buffer[index % SAMPLES_PER_FRAME] and adds one to index
SoundNextMany ==
    /\ sound.ok
    /\ probe.pc # "counting"
    /\ mix.index % SAMPLES_PER_FRAME >= MaxWalk
    /\ mix.index % SAMPLES_PER_FRAME < SAMPLES_PER_FRAME - 1
    /\ \E b \in BinsOf(mix.buffer) :
          /\ mix' = [mix EXCEPT !.index =
                        mix.index + ((SAMPLES_PER_FRAME - 1)
                                        - (mix.index % SAMPLES_PER_FRAME))]
          /\ out' = [k |-> "Some", val |-> Served(mix.buffer, b), bins |-> b]
          /\ sched' = [sched EXCEPT !.order = <<>>]
    /\ UNCHANGED <<inputVars, frames, probe, duration, chanVars, pureVars>>

\* Pcm::total_duration, its first step: self.sound.pcm(pitch, length) builds
\* a fresh iterator for count().  The model has it called before the first
\* sample is taken or after the stream has ended.
TotalDuration ==
    /\ sound.ok
    /\ probe.pc = "unstarted"
    /\ out.k \in {"NoCall", "None"}
    /\ probe' = [pc |-> "counting",
                 chans |-> SoundIteratorNew(sound.slots, pitch,
                                            EffectiveLength(length)),
                 result |-> 0]
    /\ UNCHANGED <<inputVars, mix, out, frames, duration, sched, chanVars, pureVars>>

\* What total_duration() makes of count()'s answer: len samples are
\* len / SOURCE_SAMPLE_RATE seconds
DurationOf(len) ==
    IF len = UsizeMax THEN [k |-> "None", len |-> 0] ELSE [k |-> "Some", len |-> len]

\* One pass of count()'s loop, and total_duration()'s return when the pass
\* returns
CountPass ==
    /\ probe.pc = "counting"
    /\ probe.result < MaxFrames * SAMPLES_PER_FRAME
    /\ \E t \in {CountFrom(rom, InBank, probe.chans, TRUE, 1)} :
           CASE t.halt # "No" ->
                  /\ probe' = [probe EXCEPT !.pc = "stopped", !.chans = t.chans]
                  /\ duration' = [k |-> t.halt, len |-> 0]
             [] t.halt = "No" /\ t.ret = "Max" ->
                  /\ probe' = [probe EXCEPT !.pc = "returned", !.chans = t.chans]
                  /\ duration' = DurationOf(UsizeMax)
             [] t.halt = "No" /\ t.ret = "No" /\ t.done ->
                  /\ probe' = [probe EXCEPT !.pc = "returned", !.chans = t.chans]
                  /\ duration' = DurationOf(probe.result)
             [] t.halt = "No" /\ t.ret = "No" /\ ~t.done ->
                  /\ probe' = [probe EXCEPT !.chans = t.chans,
                                  !.result = probe.result + SAMPLES_PER_FRAME]
                  /\ duration' = duration
    /\ UNCHANGED <<inputVars, mix, out, frames, sched, chanVars, pureVars>>

\* ------------------------------------------------------------------------
\* A channel iterator on its own

\* The sum of (length nibble + 1) over the notes among cmds
RECURSIVE NoteSum(_)
NoteSum(cmds) ==
    IF cmds = <<>> THEN 0
    ELSE (IF Head(cmds).op \in {"SquareNote", "NoiseNote"}
          THEN Head(cmds).length + 1 ELSE 0) + NoteSum(Tail(cmds))

\* Bounds of the bookkeeping: finite Loops counted, frames counted after a
\* PitchSweep
MaxHist == 6

MaxSince == 40

\* The cursor after the i-th command of a call that left the channel as c
CursorAfter(cmds, i, c) == IF i < Len(cmds) THEN cmds[i + 1].at ELSE c.addr

\* The finite Loops of a call's commands
FiniteLoops(cmds) ==
    {i \in 1..Len(cmds) : cmds[i].op = "Loop" /\ cmds[i].count > 0}

SetMin(S) == CHOOSE x \in S : \A y \in S : x <= y

\* The cursor of the first finite Loop the channel met, 0 - 1 before any
FirstLoop(h, cmds) ==
    IF h.first >= 0 \/ FiniteLoops(cmds) = {} THEN h.first
    ELSE cmds[SetMin(FiniteLoops(cmds))].at

\* The times the finite Loop at the cursor at jumped to its target in a
\* call, and the times it fell through to the command after it
Jumped(cmds, c, at) ==
    {i \in FiniteLoops(cmds) :
        cmds[i].at = at /\ CursorAfter(cmds, i, c) = cmds[i].addr}

Fell(cmds, c, at) ==
    {i \in FiniteLoops(cmds) :
        cmds[i].at = at /\ CursorAfter(cmds, i, c) = (at + 4) % 65536}

Ops(cmds) == {cmds[i].op : i \in 1..Len(cmds)}

\* The freq the frame of a call starts with: that of the call's last
\* SquareNote, or the freq before the call
RECURSIVE FrameFreq(_, _)
FrameFreq(cmds, freq) ==
    IF cmds = <<>> THEN freq
    ELSE IF cmds[Len(cmds)].op = "SquareNote" THEN cmds[Len(cmds)].freq
    ELSE FrameFreq(SubSeq(cmds, 1, Len(cmds) - 1), freq)

\* The bookkeeping after a call of next() that came to r from the channel c.
\* Frames and freq changes are counted from the last PitchSweep on, as long
\* as a change of freq can be seen (freq >> |pitch_sweep| is not 0) and
\* fewer than MaxSince frames were counted.
HistAfter(h, c, r) ==
    LET base    == FrameFreq(r.cmds, c.freq)
        frame   == IF r.out = "Frame" THEN 1 ELSE 0
        changed == IF r.out = "Frame" /\ r.ch.freq # base THEN 1 ELSE 0
        seen    == Shr(base, Abs(r.ch.pitch_sweep)) # 0
        first   == FirstLoop(h, r.cmds)
        loops   == [h EXCEPT
                      !.first = first,
                      !.jumps = Min(MaxHist, h.jumps
                                  + Cardinality(Jumped(r.cmds, r.ch, first))),
                      !.falls = Min(MaxHist, h.falls
                                  + Cardinality(Fell(r.cmds, r.ch, first)))]
    IN  IF "PitchSweep" \in Ops(r.cmds)
        THEN [loops EXCEPT !.armed = seen, !.since = frame, !.ups = changed,
                           !.base = base]
        ELSE IF h.armed /\ frame = 1
        THEN IF seen /\ h.since < MaxSince
             THEN [loops EXCEPT !.since = h.since + 1,
                                !.ups = h.ups + changed, !.base = base]
             ELSE [loops EXCEPT !.armed = FALSE]
        ELSE loops

\* Bound of the bookkeeping: frames counted after a DutyCyclePattern
MaxDutyFrames == 9

\* The duty bookkeeping after a call of next() that came to r: pat holds the
\* operands a, b, c, d of the last DutyCyclePattern executed (none after a
\* DutyCycle), nth the frames yielded since, up to MaxDutyFrames
DutyAfter(h, r) ==
    LET sets  == {i \in 1..Len(r.cmds) :
                    r.cmds[i].op \in {"DutyCycle", "DutyCyclePattern"}}
        frame == IF r.out = "Frame" THEN 1 ELSE 0
    IN  IF sets # {}
        THEN LET cmd == r.cmds[CHOOSE i \in sets : \A k \in sets : k <= i]
             IN  [h EXCEPT !.pat = IF cmd.op = "DutyCyclePattern"
                                   THEN <<cmd.a, cmd.b, cmd.c, cmd.d>>
                                   ELSE <<>>,
                           !.nth = frame]
        ELSE IF h.pat # <<>> /\ frame = 1
        THEN [h EXCEPT !.nth = Min(MaxDutyFrames, h.nth + 1)]
        ELSE h

\* One call of ChannelIterator::next
ChanNext ==
    /\ chan # NoChan
    /\ last.out \notin {"Abort", "Hang"}
    /\ \E r \in {ChannelNext(rom, InBank, chan)} :
       LET sum == notes.sum + NoteSum(r.cmds)
       IN  /\ chan' = r.ch
           /\ last' = [out |-> r.out, vol |-> r.vol, cmds |-> r.cmds,
                        duty |-> IF r.out = "Frame" /\ r.ch.channel = "SfxPulse"
                                 THEN r.duty ELSE 0 - 1]
           /\ notes' = IF notes.on /\ sum <= MaxSum
                       THEN [on |-> TRUE, sum |-> sum,
                             emitted |-> notes.emitted
                                           + (IF r.out = "Frame" /\ ~r.ch.is_done
                                              THEN 1 ELSE 0)]
                       ELSE [on |-> FALSE, sum |-> 0, emitted |-> 0]
           /\ hist' = DutyAfter(HistAfter(hist, chan, r), r)
    /\ UNCHANGED <<inputVars, mixVars, pureVars>>

\* ------------------------------------------------------------------------
\* Initial states and specifications

\* The frequency of the notes of the inputs
Freq0 == 7 * 256

\* Streams of a pulse channel the mixer is run on
PulseDescs ==
    {Desc("note", l, v, f, 0, Freq0) : l \in {0, 2}, v \in {0, 2, 15}, f \in {0, 1, 2, 9}}
    \cup {Desc("loop", 1, 3, 1, x, Freq0) : x \in {0, 1, 2, 3}}
    \cup {Desc("two", 0, 3, 1, 0, Freq0), Desc("jump", 1, 2, 1, 0, Freq0),
          Desc("hang", 0, 0, 0, 0, 0), Desc("exec", 0, 15, 1, 0, Freq0),
          Desc("raw", 0, 0, 0, 0, 0), Desc("ret", 0, 0, 0, 0, 0)}

\* A few of them, for the sounds of several channels
FewPulseDescs ==
    {Desc("note", 0, 15, 0, 0, Freq0), Desc("note", 1, 3, 2, 0, Freq0),
     Desc("note", 2, 7, 9, 0, Freq0), Desc("loop", 1, 3, 1, 2, Freq0),
     Desc("loop", 1, 15, 1, 0, Freq0), Desc("jump", 1, 2, 1, 0, Freq0)}

NoiseDescs ==
    {Desc("nnote", 1, 15, 0, 216, 0), Desc("nnote", 2, 3, 1, 216, 0),
     Desc("nloop", 0, 8, 10, 216, 2)}

WaveDescs == {Desc("wave", 0, 0, 0, 0, 0), Desc("raw", 0, 0, 0, 0, 0)}

\* A case is a header, the caller's pitch and the caller's length
Case(es, p, n) == [es |-> es, p |-> p, n |-> n]

\* The sounds the mixer is run on
Cases ==
    {Case(<<Entry(5, d)>>, p, n) : d \in PulseDescs, p \in {0, 0 - 1}, n \in {0, 128}}
    \cup {Case(<<Entry(6, d)>>, 0, 1) : d \in FewPulseDescs}
    \cup {Case(<<Entry(8, d)>>, p, n) : d \in NoiseDescs, p \in {0, 85}, n \in {0, 255}}
    \cup {Case(<<Entry(7, d)>>, 0, 0) : d \in WaveDescs}
    \cup {Case(<<Entry(1, d)>>, 0, 0) :
             d \in {Desc("ret", 0, 0, 0, 0, 0), Desc("note", 0, 15, 1, 0, Freq0)}}
    \cup {Case(<<Entry(5, d1), Entry(6, d2)>>, 0, n) :
             d1 \in FewPulseDescs, d2 \in FewPulseDescs, n \in {0, 128}}
    \cup {Case(<<Entry(5, d1), Entry(6, d2), Entry(8, d3)>>, 0, n) :
             d1 \in {Desc("note", 1, 15, 0, 0, Freq0), Desc("note", 0, 2, 2, 0, Freq0)},
             d2 \in {Desc("note", 1, 15, 0, 0, Freq0), Desc("loop", 1, 3, 1, 1, Freq0)},
             d3 \in NoiseDescs, n \in {0, 128}}
    \cup {Case(<<Entry(8, d3), Entry(7, d4), Entry(6, d2), Entry(5, d1)>>, 0, 128) :
             d1 \in {Desc("note", 1, 15, 0, 0, Freq0)},
             d2 \in {Desc("note", 1, 15, 1, 0, Freq0)},
             d3 \in {Desc("nnote", 1, 15, 0, 216, 0)},
             d4 \in WaveDescs}
    \cup {Case(<<Entry(5, d), Entry(id, d)>>, 0, 0) :
             d \in {Desc("ret", 0, 0, 0, 0, 0)}, id \in {1, 5}}
    \cup {Case(<<Entry(id, d)>>, 0, 0) :
             d \in {Desc("ret", 0, 0, 0, 0, 0)}, id \in {9, 16}}

\* The state after synthesis(rom, InBank, HeaderAddr, pitch, length) and
\* Pcm::iter()
Init ==
    /\ \E c \in Cases :
          /\ rom = BuildRom(c.es)
          /\ pitch = c.p
          /\ length = c.n
    /\ sound = SoundNew(rom, InBank, HeaderAddr)
    /\ mix = [chans |-> IF sound.ok
                        THEN SoundIteratorNew(sound.slots, pitch,
                                              EffectiveLength(length))
                        ELSE EmptySound,
              index |-> 0, buffer |-> EmptyBuffer]
    /\ out = IdleOut
    /\ frames = 0
    /\ sched = IdleSched
    /\ probe = IdleProbe
    /\ duration = IdleDuration
    /\ chan = NoChan
    /\ last = IdleLast
    /\ notes = IdleNotes
    /\ hist = IdleHist
    /\ PureIdle

Next == SoundNext \/ SoundNextMany \/ TotalDuration \/ CountPass

Spec == Init /\ [][Next]_vars

\* The caller's lengths the note timing is followed for
Lengths == {0, 1, 53, 128, 240, 255}

\* The channels driven on their own: the one record of a header each
ChanCases ==
    \* every volume and every fade nibble
    {Case(<<Entry(5, Desc("note", 0, v, f, 0, Freq0))>>, 0, n) :
        v \in 0..15, f \in 0..15, n \in {0, 128}}
    \* notes of every length, one after the other
    \cup {Case(<<Entry(5, Desc("two", l, 15, 1, x, Freq0))>>, 0, n) :
             l \in 0..15, x \in {0, 1, 6, 15}, n \in Lengths}
    \cup {Case(<<Entry(6, Desc("note", l, 15, 9, 0, Freq0))>>, 0, n) :
             l \in {0, 1, 15}, n \in Lengths}
    \* loops
    \cup {Case(<<Entry(5, Desc("loop", l, 15, f, x, Freq0))>>, 0, n) :
             l \in {0, 1, 2}, f \in {0, 1}, x \in 0..4, n \in {0, 1, 128}}
    \cup {Case(<<Entry(5, d)>>, 0, n) :
             d \in {Desc("jump", 1, 15, 1, 0, Freq0), Desc("hang", 0, 0, 0, 0, 0),
                    Desc("ret", 0, 0, 0, 0, 0)}, n \in {0, 128}}
    \* kinds without frames, unknown opcodes, a command cut by the ROM's end
    \cup {Case(<<Entry(5, Desc("exec", l, v, 1, 0, Freq0))>>, 0, n) :
             l \in {0, 1}, v \in {0, 15}, n \in {0, 128}}
    \cup {Case(<<Entry(id, Desc("raw", 0, 0, 0, x, 0))>>, 0, 0) :
             id \in {5, 8}, x \in {0, 32, 254}}
    \cup {Case(<<Entry(7, d)>>, 0, 0) : d \in WaveDescs}
    \cup {Case(<<Entry(5, Desc("bad", l, 2, 1, x, Freq0))>>, 0, 0) :
             l \in {0, 1}, x \in {0, 17, 240}}
    \cup {Case(<<Entry(id, d)>>, 0, 0) :
             id \in {1, 3, 4},
             d \in {Desc("ret", 0, 0, 0, 0, 0), Desc("note", 0, 15, 1, 0, Freq0)}}
    \* duty and pitch sweep
    \cup {Case(<<Entry(5, Desc("duty", 1, 15, 1, x, Freq0))>>, p, 128) :
             x \in {27, 228}, p \in {0, 0 - 1}}
    \cup {Case(<<Entry(5, Desc("dutyc", 1, 15, 1, x, Freq0))>>, 0, 128) :
             x \in {0, 1, 2, 3}}
    \cup {Case(<<Entry(8, Desc("nduty", 1, 15, 1, 216, q))>>, 0, 0) :
             q \in {27, 228}}
    \cup {Case(<<Entry(5, Desc("sweep", 3, 15, 1, x, Freq0))>>, p, 128) :
             x \in {0, 23, 31, 26}, p \in {0, 0 - 128, 85}}
    \* noise
    \cup {Case(<<Entry(8, Desc("nnote", l, v, f, 216, 0))>>, p, n) :
             l \in {0, 1, 15}, v \in {0, 1, 15}, f \in 1..7, p \in {0, 85},
             n \in {0, 255}}
    \cup {Case(<<Entry(8, Desc("nnote", 0, v, f, 216, 0))>>, 0, 0) :
             v \in {1, 15}, f \in {0, 8, 9, 15}}
    \cup {Case(<<Entry(8, Desc("ntwo", l, 15, 1, 216, q))>>, 0, n) :
             l \in {0, 3, 15}, q \in {0, 15}, n \in Lengths}
    \cup {Case(<<Entry(8, Desc("nloop", l, 15, 9, 216, q))>>, 0, n) :
             l \in {0, 1}, q \in 0..3, n \in {0, 255}}
    \cup {Case(<<Entry(8, Desc("nnote", 1, 15, 2, x, 0))>>, p, 0) :
             x \in {0, 7, 225, 255}, p \in {0, 0 - 1}}

\* The channel iterator the mixer builds for the one record of a header,
\* for the headers of cases
InitChanOf(cases) ==
    /\ \E c \in cases :
          /\ rom = BuildRom(c.es)
          /\ pitch = c.p
          /\ length = c.n
          /\ sound = SoundNew(rom, InBank, HeaderAddr)
          /\ chan = SoundIteratorNew(sound.slots, pitch,
                                     EffectiveLength(length))[IdSlot(c.es[1].id)]
    /\ mix = [chans |-> EmptySound, index |-> 0, buffer |-> EmptyBuffer]
    /\ out = IdleOut
    /\ frames = 0
    /\ sched = IdleSched
    /\ probe = IdleProbe
    /\ duration = IdleDuration
    /\ last = IdleLast
    /\ notes = IdleNotes
    /\ hist = IdleHist
    /\ PureIdle

InitChan == InitChanOf(ChanCases)

NextChan == ChanNext

SpecChan == InitChan /\ [][NextChan]_vars

\* A duty pattern, a note and Return, for every volume and every fade
\* nibble: the streams whose fade-out is followed to
\* its end (the pattern 0b00011011 makes every frame change the duty byte)
FadeCases ==
    {Case(<<Entry(5, Desc("duty", 0, v, f, 27, Freq0))>>, 0, 0) :
        v \in 0..15, f \in 0..15}

InitFade == InitChanOf(FadeCases)

\* The consumer calls next() again and again
FairFade == InitFade /\ [][NextChan]_vars /\ WF_vars(ChanNext)

\* ------------------------------------------------------------------------
\* Properties

\* C1: the mixer returns None only with its index on a frame boundary, and
\* every tick in which some channel yields a frame serves exactly
\* SAMPLES_PER_FRAME samples: the index never leaves the frame of the last
\* such tick, and a stream that ends is frames * SAMPLES_PER_FRAME long.
C1_FrameAligned ==
    /\ frames = 0 => mix.index = 0
    /\ frames > 0 => /\ (frames - 1) * SAMPLES_PER_FRAME < mix.index
                     /\ mix.index <= frames * SAMPLES_PER_FRAME
    /\ out.k = "None" => /\ mix.index % SAMPLES_PER_FRAME = 0
                         /\ mix.index = frames * SAMPLES_PER_FRAME

\* A stream of several frames has ended
C1_Witness == out.k = "None" /\ frames >= 2

\* C2: next() returns None exactly when is_done and volume = 0 at the frame
\* check, before any frame is written, and a call that finds the channel
\* done with volume > 0 yields a frame.  last.vol is the volume at the frame
\* check of a call that yielded a frame; a call that returned None or
\* stopped in the frame branch leaves the channel as the check found it.
C2_NoneIffDoneSilent ==
    chan # NoChan =>
       /\ last.out = "None" => chan.is_done /\ chan.volume = 0
       /\ last.out = "Frame" => ~(chan.is_done /\ last.vol = 0)
       /\ (chan.is_done /\ last.out \notin {"NoCall", "None"}) => last.out = "Frame"

\* C2, its first half alone: None exactly when done and silent at the check
C2_NoneHalf ==
    chan # NoChan =>
       /\ last.out = "None" => chan.is_done /\ chan.volume = 0
       /\ last.out = "Frame" => ~(chan.is_done /\ last.vol = 0)
       /\ (chan.is_done /\ chan.volume = 0 /\ last.out = "Abort") => FALSE

\* C3: once Return has been executed in a channel that can write frames,
\* the calls that follow bring the volume to 0 and one of them returns None
C3_ReturnEndsStream ==
    (chan # NoChan /\ chan.is_done /\ chan.channel \in FrameKinds)
        ~> (chan.volume = 0 /\ last.out = "None")

\* C3, for the fades that count down: a done channel whose last note has a
\* positive fade ends
C3_PositiveFadeEnds ==
    (chan # NoChan /\ chan.is_done /\ chan.channel \in FrameKinds
        /\ chan.volume_fade > 0)
        ~> (chan.volume = 0 /\ last.out = "None")


\* C4: total_duration() is absent exactly when the sound is unbounded.  For
\* a stream that has ended and a total_duration() that has returned: the
\* answer is Some.
C4_AbsentIffUnbounded ==
    (out.k = "None" /\ probe.pc = "returned") => duration.k = "Some"

\* C4, the other direction: a total_duration() that answered Some was asked
\* about a stream that ends no later than that (the mixer never serves more
\* samples than the answer)
C4_SomeBoundsStream ==
    (probe.pc = "returned" /\ duration.k = "Some") => mix.index <= duration.len

\* C5: for a stream that has ended, count() returned the number of samples
\* next() yielded, frames * SAMPLES_PER_FRAME, which total_duration() hands
\* on over SOURCE_SAMPLE_RATE
C5_CountIsYield ==
    (out.k = "None" /\ probe.pc = "returned")
        => /\ duration = DurationOf(mix.index)
           /\ duration.len = frames * SAMPLES_PER_FRAME

\* C5, for the sounds count() does not take to be infinite
C5_CountIsYieldWhenSome ==
    (out.k = "None" /\ probe.pc = "returned" /\ duration.k = "Some")
        => /\ duration.len = mix.index
           /\ duration.len = frames * SAMPLES_PER_FRAME

\* The channel samples behind the sample just served, summed (each over 16)
SampleSum ==
    LET part(s) == IF mix.buffer[s] = NoFrame THEN 0
                   ELSE sample(out.bins[s], mix.buffer[s])
    IN  part("pulse1") + part("pulse2") + part("wave") + part("noise")

\* The slots whose channel yielded a frame in the current tick
Sounding == {s \in SlotSet : mix.buffer[s] # NoFrame}

\* C6: a served sample is the sum over the channels that yielded a frame in
\* the current tick of the channel's sample / 3, whatever their number:
\* three times the served value (over MixUnit) is the sum of the channel
\* samples (brought from over 16 to over MixUnit)
C6_MixedIsSumOverThree ==
    out.k = "Some" => out.val * MixDivisor = SampleSum * (MixUnit \div 16)

\* A single sounding channel, divided by 3 all the same, next to channels
\* that are present and returned None
C6_Witness ==
    /\ out.k = "Some"
    /\ Cardinality(Sounding) = 1
    /\ Cardinality({s \in SlotSet : mix.chans[s] # NoChan}) = 3
    /\ out.val # 0

\* Three sounding channels
C6_WitnessThree == out.k = "Some" /\ Cardinality(Sounding) = 3 /\ out.val # 0

\* C7: every channel sample is +-volume/16 with volume <= 15, and every
\* served sample is within [-15/16, 15/16]
C7_SampleRange ==
    /\ \A s \in Sounding :
          /\ mix.buffer[s] \in 0..15
          /\ \A b \in {0, 1} : Abs(sample(b, mix.buffer[s])) = mix.buffer[s]
    /\ out.k = "Some" => Abs(out.val) * 16 <= 15 * MixUnit

\* Three channels at volume 15 with the same sign: 15/16 is reached
C7_Witness ==
    /\ out.k = "Some"
    /\ Cardinality(Sounding) = 3
    /\ Abs(out.val) * 16 = 15 * MixUnit


\* C8: in every reachable state of a channel iterator volume is in 0..15
\* (and so within its 8 bits), whatever the notes and however many fade
\* ticks, counting down or up
C8_VolumeRange == chan # NoChan => chan.volume \in 0..15

\* A fade that counts up has ticked at volume 15: the delay of a fade of -1
\* is 7 again after a frame only when the clock has just reloaded it
C8_Witness ==
    /\ chan # NoChan
    /\ last.out = "Frame"
    /\ last.vol = 15
    /\ chan.volume = 15
    /\ chan.volume_fade = 0 - 1
    /\ chan.volume_fade_delay = 7

\* A fade that counts down has ticked at volume 0
C8_WitnessDown ==
    /\ chan # NoChan
    /\ last.out = "Frame"
    /\ last.vol = 0
    /\ chan.volume = 0
    /\ chan.volume_fade = 1
    /\ chan.volume_fade_delay = 1

\* C9: with R the channel's length parameter and S the sum of (l + 1) over
\* the notes decoded so far, the frames the notes have been given (those
\* yielded plus those note_delay still holds) are floor(R * S / 256), the
\* fraction kept is R * S mod 256, and note_delay holds the quotient whole
C9_FractionCarried ==
    (chan # NoChan /\ notes.on) =>
        /\ notes.emitted + chan.note_delay = (chan.length * notes.sum) \div 256
        /\ chan.note_delay_fraction = (chan.length * notes.sum) % 256
        /\ chan.note_delay <= 255

\* Two notes of half a frame each (R = 0x80, nibble 0) have made one frame,
\* and the stream has gone on to Return
C9_Witness ==
    /\ chan # NoChan
    /\ notes.on
    /\ chan.length = 128
    /\ notes.sum = 2
    /\ notes.emitted = 1
    /\ chan.is_done

\* The longest note of the largest caller length: 0x17f * 16 subframes
C9_WitnessLongest ==
    /\ chan # NoChan
    /\ notes.on
    /\ chan.length = 255 + LengthBias
    /\ chan.note_delay = 22
    /\ notes.emitted = 1
    /\ notes.sum = 16

\* The kinds of the noise slot
NoiseKinds == {"SfxNoise", "MusicNoise"}

\* C10: pulse and wave channels are built with the caller's length + 0x80,
\* the noise channel with 0x100, whatever the caller's length; so the notes
\* of a noise channel last the sum of (nibble + 1) frames and its fraction
\* stays 0
C10_NoiseLengthFixed ==
    chan # NoChan =>
        IF chan.channel \in NoiseKinds
        THEN /\ chan.length = NoiseLength
             /\ chan.note_delay_fraction = 0
             /\ notes.on => notes.emitted + chan.note_delay = notes.sum
        ELSE chan.length = length + LengthBias

\* A noise channel built for a caller's length whose effective length is not
\* 0x100 has played a NoiseNote of nibble 15 for 16 frames
C10_Witness ==
    /\ chan # NoChan
    /\ chan.channel \in NoiseKinds
    /\ length = 0
    /\ notes.on
    /\ notes.sum = 16
    /\ notes.emitted = 16


\* ------------------------------------------------------------------------
\* Sound::new on its own

\* The state of everything but the ROM when only a pure function is applied
CoreIdle ==
    /\ pitch = 0
    /\ length = 0
    /\ sound = [ok |-> FALSE, slots |-> EmptySound]
    /\ mix = [chans |-> EmptySound, index |-> 0, buffer |-> EmptyBuffer]
    /\ out = IdleOut
    /\ frames = 0
    /\ sched = IdleSched
    /\ probe = IdleProbe
    /\ duration = IdleDuration
    /\ chan = NoChan
    /\ last = IdleLast
    /\ notes = IdleNotes
    /\ hist = IdleHist

coreVars == <<pitch, length, sound, mixVars, chanVars>>

\* The pointers of a header's four records
HdrPtrs == <<16675, 3070, 65280, 32769>>

\* A ROM that is four header records: the first id byte says n records are
\* used, every id byte has the low nibble nibs[i], and with stray the bits
\* no field owns are set (bits 4-5 of the first byte, bits 4-7 of the others)
HeaderRom(n, stray, nibs) ==
    [k \in 1..12 |->
        LET i == ((k - 1) \div 3) + 1
        IN  CASE k % 3 = 1 ->
                    nibs[i] + (IF i = 1 THEN 64 * (n - 1) ELSE 0)
                            + (IF ~stray THEN 0 ELSE IF i = 1 THEN 48 ELSE 208)
              [] k % 3 = 2 -> HdrPtrs[i] % 256
              [] k % 3 = 0 -> HdrPtrs[i] \div 256]

HeaderRoms ==
    {HeaderRom(n, stray, <<a, b, c, d>>) :
        n \in 1..4, stray \in BOOLEAN,
        a \in 0..15, b \in 0..15, c \in {0, 2, 4, 6, 7, 9}, d \in {3, 7, 12}}

InitHeader ==
    /\ rom \in HeaderRoms
    /\ CoreIdle
    /\ hdr = [pc |-> "unparsed"]
    /\ dec = IdleDec
    /\ i4 = IdleI4
    /\ wav = IdleWav
    /\ calc = IdleCalc
    /\ quirk = IdleQuirk

\* Sound::new(rom, InBank, HeaderAddr)
ParseHeader ==
    /\ hdr.pc = "unparsed"
    /\ hdr' = [pc |-> "parsed", sound |-> SoundNew(rom, InBank, HeaderAddr)]
    /\ UNCHANGED <<rom, coreVars, dec, i4, wav, calc, quirk>>

NextHeader == ParseHeader

SpecHeader == InitHeader /\ [][NextHeader]_vars

\* What a header says, read off the ROM bytes
HdrCount == (rom[1] \div 64) + 1

HdrNibble(i) == rom[3 * i - 2] % 16

HdrPointer(i) == rom[3 * i - 1] + 256 * rom[3 * i]

\* The slot and the kind the format gives the ids 1..8
SlotOfId == <<"pulse1", "pulse2", "wave", "noise",
              "pulse1", "pulse2", "wave", "noise">>

KindOfId == <<"MusicPulse", "MusicPulse", "MusicWave", "MusicNoise",
              "SfxPulse", "SfxPulse", "SfxWave", "SfxNoise">>

\* A record's channel id when it is the low nibble of the id byte plus `plus`
HdrIdPlus(i, plus) == HdrNibble(i) + plus

\* A parsed header holds, for each of its records, the channel of the kind
\* of the record's id at the record's pointer in the header's bank, and
\* nothing else
RecordsMapped(plus) ==
    (hdr.pc = "parsed" /\ hdr.sound.ok) =>
        /\ \A i \in 1..HdrCount :
              HdrIdPlus(i, plus) \in 1..8 =>
                 hdr.sound.slots[SlotOfId[HdrIdPlus(i, plus)]] =
                    [channel |-> KindOfId[HdrIdPlus(i, plus)],
                     bank |-> InBank, addr |-> HdrPointer(i)]
        /\ \A s \in SlotSet :
              hdr.sound.slots[s] # NoChan =>
                 \E i \in 1..HdrCount :
                    /\ HdrIdPlus(i, plus) \in 1..8
                    /\ SlotOfId[HdrIdPlus(i, plus)] = s

HdrId(i) == HdrIdPlus(i, 1)

\* C11 (amended): Sound::new reads (first byte >> 6) + 1 records; a record's
\* channel id is the low nibble of its id byte plus one; ids 1..4 create
\* pulse1, pulse2, wave, noise in music kind and 5..8 the same slots in SFX
\* kind, each at the record's little-endian pointer in the header's bank
C11_IdIsNibblePlusOne == RecordsMapped(1)

\* C11 as stated: the channel id is the low nibble itself
C11_IdIsNibble == RecordsMapped(1 - 1)

\* A header of four records parsed into four channels, music and SFX
C11_Witness ==
    /\ hdr.pc = "parsed"
    /\ hdr.sound.ok
    /\ HdrCount = 4
    /\ hdr.sound.slots["pulse1"].channel = "SfxPulse"
    /\ hdr.sound.slots["pulse2"].channel = "MusicPulse"
    /\ hdr.sound.slots["wave"].channel = "SfxWave"
    /\ hdr.sound.slots["noise"].channel = "MusicNoise"

\* Two records of the header name one slot
HdrDuplicate ==
    \E i \in 1..HdrCount : \E k \in 1..HdrCount :
        /\ i < k
        /\ HdrId(i) \in 1..8
        /\ HdrId(k) \in 1..8
        /\ (HdrId(i) - 1) % 4 = (HdrId(k) - 1) % 4

HdrInvalid == \E i \in 1..HdrCount : HdrId(i) \notin 1..8

\* C12: Sound::new fails exactly when some record's id is outside 1..=8 or
\* two records name one slot, a music id and an SFX id of one slot included
C12_FailsIffInvalidOrDuplicate ==
    hdr.pc = "parsed" => (~hdr.sound.ok <=> (HdrInvalid \/ HdrDuplicate))

\* A header of a music id and the SFX id of the same slot, refused
C12_Witness ==
    /\ hdr.pc = "parsed"
    /\ ~hdr.sound.ok
    /\ HdrCount = 2
    /\ HdrId(1) = 1
    /\ HdrId(2) = 5

\* A header with an id above 8, refused
C12_WitnessInvalid ==
    /\ hdr.pc = "parsed"
    /\ ~hdr.sound.ok
    /\ HdrCount = 1
    /\ HdrId(1) = 16


\* ------------------------------------------------------------------------
\* Command::parse on its own

\* The ROMs a command is decoded from at offset 0: every opcode byte before
\* a few operand bytes, every second byte after the note opcodes, and ROMs
\* that end one, two or three bytes in
DecodeRoms ==
    {<<b, x, y, z>> :
        b \in 0..255, x \in {0, 8, 143, 249}, y \in {0, 165}, z \in {7, 255}}
    \cup {<<b, x, 165, 7>> : b \in 32..47, x \in 0..255}
    \cup {<<b>> : b \in 0..255}
    \cup {<<b, 143>> : b \in 0..255}
    \cup {<<b, 143, 165>> : b \in 0..255}

InitDecode ==
    /\ rom \in DecodeRoms
    /\ CoreIdle
    /\ hdr = IdleHdr
    /\ \E k \in ChannelTypes : dec = [pc |-> "unparsed", kind |-> k]
    /\ i4 = IdleI4
    /\ wav = IdleWav
    /\ calc = IdleCalc
    /\ quirk = IdleQuirk

\* Command::parse(rom, InBank, 0, kind)
ParseCommand ==
    /\ dec.pc = "unparsed"
    /\ dec' = [pc |-> "parsed", kind |-> dec.kind,
               cmd |-> Parse(rom, InBank, 1 - 1, dec.kind)]
    /\ UNCHANGED <<rom, coreVars, hdr, i4, wav, calc, quirk>>

NextDecode == ParseCommand

SpecDecode == InitDecode /\ [][NextDecode]_vars

\* parse returned a Command
Decoded == dec.pc = "parsed" /\ dec.cmd.op \notin {"Panic", "Unknown"}

\* C13: a decoded command has a length len() in 1..=4 and was decoded from
\* the bytes at offsets 0..len-1 alone: no higher offset was read, and the
\* ROM cut after len bytes decodes to the same command
C13_ReadsWithinLen ==
    Decoded =>
        /\ CmdLen(dec.cmd) \in 1..4
        /\ dec.cmd.hi < CmdLen(dec.cmd)
        /\ Parse(SubSeq(rom, 1, Min(Len(rom), CmdLen(dec.cmd))),
                 InBank, 1 - 1, dec.kind) = dec.cmd

\* A four-byte command decoded from a ROM of four bytes
C13_Witness ==
    /\ Decoded
    /\ dec.cmd.op = "Loop"
    /\ Len(rom) = 4

\* A three-byte command decoded from a ROM that ends with it
C13_WitnessShort ==
    /\ Decoded
    /\ dec.cmd.op = "Vibrato"
    /\ Len(rom) = 3

\* The value of a signed-magnitude nibble, bit 3 the sign
SignedMagnitude(byte) ==
    (IF (byte \div 8) % 2 = 1 THEN 0 - 1 ELSE 1) * (byte % 8)

\* C14: in SFX pulse kind 0x20..=0x2F decode to SquareNote {length = b & 0xF,
\* volume = next >> 4, fade = the signed-magnitude nibble of next, freq =
\* next2 + 256 * next3} of length 4; in SFX noise kind they decode to
\* NoiseNote {length, volume and fade the same, value = next2} of length 3
C14_NoteFields ==
    /\ (dec.pc = "parsed" /\ dec.kind = "SfxPulse" /\ rom[1] \in 32..47
           /\ Len(rom) >= 4) =>
          /\ dec.cmd.op = "SquareNote"
          /\ dec.cmd.length = rom[1] % 16
          /\ dec.cmd.volume = rom[2] \div 16
          /\ dec.cmd.fade = SignedMagnitude(rom[2])
          /\ dec.cmd.freq = rom[3] + 256 * rom[4]
          /\ CmdLen(dec.cmd) = 4
    /\ (dec.pc = "parsed" /\ dec.kind = "SfxNoise" /\ rom[1] \in 32..47
           /\ Len(rom) >= 3) =>
          /\ dec.cmd.op = "NoiseNote"
          /\ dec.cmd.length = rom[1] % 16
          /\ dec.cmd.volume = rom[2] \div 16
          /\ dec.cmd.fade = SignedMagnitude(rom[2])
          /\ dec.cmd.value = rom[3]
          /\ CmdLen(dec.cmd) = 3

\* 2F F9 A5 07 decoded in SFX pulse kind
C14_Witness ==
    /\ dec.pc = "parsed"
    /\ dec.kind = "SfxPulse"
    /\ rom = <<47, 249, 165, 7>>
    /\ dec.cmd.op = "SquareNote"
    /\ dec.cmd.fade = 0 - 1
    /\ dec.cmd.freq = 1957

\* 20 8F A5 decoded in SFX noise kind
C14_WitnessNoise ==
    /\ dec.pc = "parsed"
    /\ dec.kind = "SfxNoise"
    /\ rom = <<32, 143, 165>>
    /\ dec.cmd.op = "NoiseNote"
    /\ dec.cmd.fade = 0 - 7
    /\ dec.cmd.value = 165

\* C15: music-wave kind decodes every opcode byte as music-pulse kind does,
\* 0xEC (DutyCycle), 0xF0 (Volume) and 0xFC (DutyCyclePattern) included
C15_WaveDecodesAsPulse ==
    (dec.pc = "parsed" /\ dec.kind = "MusicWave" /\ Len(rom) = 4) =>
        dec.cmd = Parse(rom, InBank, 1 - 1, "MusicPulse")

\* What the two kinds do share: every opcode but those three
C15_SharedButThree ==
    (dec.pc = "parsed" /\ dec.kind = "MusicWave"
        /\ rom[1] \notin {236, 240, 252}) =>
        dec.cmd = Parse(rom, InBank, 1 - 1, "MusicPulse")

\* ------------------------------------------------------------------------
\* from_i4 on its own

InitI4 ==
    /\ rom = <<>>
    /\ CoreIdle
    /\ hdr = IdleHdr
    /\ dec = IdleDec
    /\ \E data \in 0..255 : i4 = [pc |-> "unapplied", data |-> data]
    /\ wav = IdleWav
    /\ calc = IdleCalc
    /\ quirk = IdleQuirk

\* i8::from_i4(data), and from_i4 of the byte with bit 3 set and of the
\* byte's low nibble alone
FromI4 ==
    /\ i4.pc = "unapplied"
    /\ i4' = [pc |-> "applied", data |-> i4.data,
              value |-> from_i4(i4.data),
              flipped |-> from_i4(OrBit(i4.data, 3, 1)),
              low |-> from_i4(i4.data % 16)]
    /\ UNCHANGED <<rom, coreVars, hdr, dec, wav, calc, quirk>>

NextI4 == FromI4

SpecI4 == InitI4 /\ [][NextI4]_vars

\* C16: from_i4(0) = 0 and from_i4(8) = 0; for n in 0..=7 from_i4(n) =
\* -from_i4(n | 8); the result depends on the low four bits only and lies in
\* -7..=7
C16_SignedMagnitude ==
    i4.pc = "applied" =>
        /\ i4.data \in {0, 8} => i4.value = 0
        /\ i4.data \in 0..7 => i4.value = 0 - i4.flipped
        /\ i4.value = i4.low
        /\ i4.value \in (0 - 7)..7

\* from_i4(0x8): minus zero
C16_Witness ==
    /\ i4.pc = "applied"
    /\ i4.data = 8
    /\ i4.value = 0

\* from_i4(0xF7) = 7 and from_i4(0xFF) = -7
C16_WitnessHigh ==
    /\ i4.pc = "applied"
    /\ i4.data = 247
    /\ i4.value = 7
    /\ i4.flipped = 0 - 7


\* ------------------------------------------------------------------------
\* Failures of ChannelIterator::next

\* The last thing the last call decoded
LastCmd == last.cmds[Len(last.cmds)]

\* C17: when the byte at the cursor is not an opcode of the channel's kind
\* the decoder gives no Command, and the call of next() that met it yields
\* no frame and leaves the cursor at that byte
C17_UnknownOpcodeStops ==
    (last.cmds # <<>> /\ LastCmd.op = "Unknown") =>
        /\ last.out = "Abort"
        /\ InRom(rom, RomPos(InBank, chan.addr), 1 - 1)
        /\ D(rom, RomPos(InBank, chan.addr), 1 - 1) = LastCmd.byte

\* A note was played to its end, then a call executed DutyCycle and met the
\* byte 0x11
C17_Witness ==
    /\ last.out = "Abort"
    /\ Len(last.cmds) = 2
    /\ last.cmds[1].op = "DutyCycle"
    /\ LastCmd.op = "Unknown"
    /\ LastCmd.byte = 17
    /\ notes.emitted > 0

\* The first byte of an SFX wave stream is no opcode of the kind
C17_WitnessFirst ==
    /\ last.out = "Abort"
    /\ Len(last.cmds) = 1
    /\ LastCmd.op = "Unknown"
    /\ chan.channel = "SfxWave"

\* C18: a call of next() fails only in decoding or executing a command,
\* never in producing a frame's samples
C18_FrameNeverFails ==
    last.out = "Abort" =>
        /\ last.cmds # <<>>
        /\ LastCmd.op \notin ExecutedOps


\* ------------------------------------------------------------------------
\* The WAV writer (examples/export.rs; tests::convert_to_wav is the same)

\* The rate of the file
TargetRate == 48000

\* resample_rate_ratio = sample_rate / 48000 = RatioNum / RatioDen in lowest
\* terms.  The writer computes with f64; the quotients and products below
\* are the exact ones, which the f64 ones equal for the lengths taken here.
RatioNum == SOURCE_SAMPLE_RATE \div 128

RatioDen == TargetRate \div 128

CeilDiv(a, b) == (a + b - 1) \div b

\* ceil(n * num / den), without a product above 2^31
MulDivCeil(n, num, den) ==
    (n \div den) * num + CeilDiv((n % den) * num, den)

\* (input_len / resample_rate_ratio).ceil()
ResampledLength(len) == MulDivCeil(len, RatioDen, RatioNum)

\* (resampled_index * resample_rate_ratio).ceil(): the highest index of data
\* the loop body reads
NextIndex(resampled_index) == MulDivCeil(resampled_index, RatioNum, RatioDen)

\* n as u32: the low 32 bits, 16 at a time
AsU32(n) == (n % 65536) + 65536 * ((n \div 65536) % 65536)

\* The indices of the body loop `for resampled_index in 1..resampled_length`
\* at which data[next_index] is out of range
OutOfRange(len) ==
    {ri \in 1..(ResampledLength(len) - 1) : NextIndex(ri) >= len}

\* The file written from len samples: the data-length field of the header,
\* the number of sample bytes after the header, and whether the loop
\* panicked on an index
WavFile(len) ==
    LET n == ResampledLength(len)
        Written(bad) ==
            [field |-> AsU32(n),
             body |-> IF bad # {} THEN SetMin(bad) - 1
                      ELSE IF n = 0 THEN 0 ELSE n - 1,
             panicked |-> bad # {}]
    IN  The({Written(bad) : bad \in {OutOfRange(len)}})

\* Bounds of the source lengths
MaxSourceLen == 150

MaxSourceFrames == 60

\* The source lengths: short buffers, whole frames, and the minute the
\* exporter takes of an endless source
SourceLengths ==
    0..MaxSourceLen
    \cup {k * SAMPLES_PER_FRAME : k \in 0..MaxSourceFrames}
    \cup {60 * SOURCE_SAMPLE_RATE}

InitWav ==
    /\ rom = <<>>
    /\ CoreIdle
    /\ hdr = IdleHdr
    /\ dec = IdleDec
    /\ i4 = IdleI4
    /\ \E len \in SourceLengths : wav = [pc |-> "unwritten", len |-> len]
    /\ calc = IdleCalc
    /\ quirk = IdleQuirk

\* The writing of the file
Export ==
    /\ wav.pc = "unwritten"
    /\ \E f \in {WavFile(wav.len)} :
          wav' = [pc |-> "written", len |-> wav.len, field |-> f.field,
                  body |-> f.body, panicked |-> f.panicked]
    /\ UNCHANGED <<rom, coreVars, hdr, dec, i4, calc, quirk>>

NextWav == Export

SpecWav == InitWav /\ [][NextWav]_vars

\* C20: the data-length field of the header is the number of sample bytes
\* after the header, for every source length
C20_FieldIsBodyLength == wav.pc = "written" => wav.field = wav.body

\* What the writer does: the body loop starts at index 1, so a file whose
\* field is not 0 holds one byte less than the field says, and two less
\* when the last index read is out of range
C20_BodyShort ==
    (wav.pc = "written" /\ wav.field > 0) =>
        wav.body = wav.field - (IF wav.panicked THEN 2 ELSE 1)

\* One frame of samples written: the field says 804, 803 bytes follow
C20_OneFrame ==
    /\ wav.pc = "written"
    /\ wav.len = SAMPLES_PER_FRAME
    /\ wav.field = 804
    /\ wav.body = 803
    /\ ~wav.panicked

\* 57 frames of samples: the last index read is past the end of the data
C20_LastIndexOutOfRange ==
    /\ wav.pc = "written"
    /\ wav.len = 57 * SAMPLES_PER_FRAME
    /\ wav.panicked
    /\ wav.body = wav.field - 2


\* ------------------------------------------------------------------------
\* Loops

\* Streams with loops: a note looped count times, two loops one after the
\* other, a finite loop inside an endless one, an endless loop past a
\* note, and an endless loop onto itself
LoopCases ==
    {Case(<<Entry(5, Desc("loop", l, 2, 1, x, Freq0))>>, 0, n) :
        l \in {0, 1}, x \in 0..5, n \in {0, 128}}
    \cup {Case(<<Entry(5, Desc("loops2", 0, 2, 1, x, q))>>, 0, 0) :
             x \in 1..4, q \in 1..5}
    \cup {Case(<<Entry(5, Desc("loopinf", l, 2, f, x, Freq0))>>, 0, 128) :
             l \in {0, 1}, f \in {0, 1}, x \in 1..4}
    \cup {Case(<<Entry(8, Desc("nloop", 0, 2, 1, 216, q))>>, 0, 0) :
             q \in 0..5}
    \cup {Case(<<Entry(5, d)>>, 0, 0) :
             d \in {Desc("jump", 1, 2, 1, 0, Freq0),
                    Desc("hang", 0, 0, 0, 0, 0)}}

InitLoop == InitChanOf(LoopCases)

SpecLoop == InitLoop /\ [][NextChan]_vars

\* The count byte of the first finite Loop the channel met
FirstCount == D(rom, RomPos(InBank, hist.first), 1)

\* The commands of the last call after its i-th
Later(i) == {last.cmds[k].op : k \in (i + 1)..Len(last.cmds)}

\* C21: a Loop with count 0 jumps to its target and sets is_infinite to
\* Some(true); the first Loop with a finite count n the channel meets jumps
\* exactly n - 1 times, and then falls through to the command after it
C21_LoopCounts ==
    /\ \A i \in 1..Len(last.cmds) :
          (last.cmds[i].op = "Loop" /\ last.cmds[i].count = 0) =>
             /\ CursorAfter(last.cmds, i, chan) = last.cmds[i].addr
             /\ "Return" \notin Later(i) => chan.is_infinite = "True"
    /\ hist.first >= 0 =>
          /\ hist.jumps <= FirstCount - 1
          /\ hist.falls >= 1 => hist.jumps = FirstCount - 1
          /\ hist.jumps = FirstCount - 1 =>
                (hist.falls >= 1 \/ last.out = "Frame")

\* A Loop of count 4 jumped three times and then fell through
C21_Witness ==
    /\ hist.first >= 0
    /\ FirstCount = 4
    /\ hist.jumps = 3
    /\ hist.falls = 1

\* A Loop of count 0 jumped past a note
C21_WitnessEndless ==
    /\ last.cmds # <<>>
    /\ last.cmds[1].op = "Loop"
    /\ last.cmds[1].count = 0
    /\ chan.is_infinite = "True"
    /\ last.out = "Frame"

\* C22: whenever a Loop with a finite count n is decoded, loop_counter <= n
C22_CounterWithinCount ==
    \A i \in FiniteLoops(last.cmds) : last.cmds[i].lc <= last.cmds[i].count


\* ------------------------------------------------------------------------
\* The clocks of a frame

\* C23: when the volume-fade clock fires at the end of a frame (the volume
\* the frame was written with is not the volume after it) the delay is
\* reloaded with the magnitude of volume_fade, whatever its sign
C23_ReloadIsMagnitude ==
    (last.out = "Frame" /\ last.vol # chan.volume) =>
        chan.volume_fade_delay = Abs(chan.volume_fade) % 8

\* What the clock does reload: the low three bits of the two's complement
\* byte of volume_fade, 8 - m for a negative fade of magnitude m
C23_ReloadIsLowBits ==
    (last.out = "Frame" /\ last.vol # chan.volume) =>
        chan.volume_fade_delay =
            IF chan.volume_fade < 0 THEN 8 - Abs(chan.volume_fade)
            ELSE chan.volume_fade


\* ------------------------------------------------------------------------
\* The pitch sweep

\* The operand bytes of the PitchSweep of the inputs: length nibbles and
\* change nibbles of both signs
SweepOperands ==
    {16 * len + change : len \in {0, 1, 2, 3, 5, 8, 9, 15},
                         change \in {0, 1, 3, 7, 8, 9, 12, 15}}

\* Notes behind a PitchSweep, fading out after the stream's Return
SweepCases ==
    {Case(<<Entry(5, Desc(t, l, 15, 2, x, q))>>, 0, 0) :
        t \in {"sweep", "sweep2"}, l \in {0, 3}, x \in SweepOperands,
        q \in {Freq0, 2048}}

InitSweep == InitChanOf(SweepCases)

SpecSweep == InitSweep /\ [][NextChan]_vars

\* The operand byte of the PitchSweep a stream of SweepCases starts with
SweepOperand == rom[5]

SweepLength == SweepOperand \div 16

SweepMagnitude == SweepOperand % 8

SweepNegative == (SweepOperand \div 8) % 2 = 1 /\ SweepMagnitude # 0

\* freq after one update from the freq the frame was played with
SweptOnce ==
    IF SweepNegative
    THEN (hist.base - Shr(hist.base, SweepMagnitude) + 65536) % 65536
    ELSE (hist.base + Shr(hist.base, SweepMagnitude)) % 65536

C30_WitnessNever ==
    /\ hist.armed
    /\ rom[4] = 16
    /\ SweepLength = 0
    /\ hist.since = 8
    /\ hist.ups = 0

\* A second SquareNote is played in the middle of a period of the sweep, and
\* the update comes at the frame it was due
C30_WitnessSecondNote ==
    /\ hist.armed
    /\ rom[4] = 16
    /\ SweepLength = 5
    /\ SweepNegative
    /\ hist.since = 5
    /\ hist.base = 1024
    /\ chan.freq = 1024 - Shr(1024, SweepMagnitude)

\* C25: the channel's freq is always an 11-bit value, right after any
\* SquareNote and after any number of sweep updates
C25_FreqElevenBits == chan.freq \in 0..2047

\* What holds: freq is a 16-bit value
C25_FreqSixteenBits == chan.freq \in 0..65535

\* ------------------------------------------------------------------------
\* Computations of the channel iterator on their own

\* A pulse channel that has played nothing
FreshPulse == ChannelIteratorNew(1 - 1, "SfxPulse", 1 - 1, 1 - 1)

\* The inputs: f names the computation, in its input
CalcInputs ==
    {[f |-> "period", in |-> [freq |-> q, pitch |-> p]] :
        q \in {0, 1, 255, 256, 1792, 2047, 2048, 65535}, p \in (0 - 128)..127}
    \cup {[f |-> f, in |-> b] : f \in {"step", "duty", "sweep"}, b \in 0..255}

InitCalc ==
    /\ rom = <<>>
    /\ CoreIdle
    /\ hdr = IdleHdr
    /\ dec = IdleDec
    /\ i4 = IdleI4
    /\ wav = IdleWav
    /\ quirk = IdleQuirk
    /\ \E x \in CalcInputs : calc = [pc |-> "unapplied", f |-> x.f, in |-> x.in]

Applied(res) == [pc |-> "applied", f |-> calc.f, in |-> calc.in, out |-> res]

\* The period of a pulse frame of a channel with the freq and pitch given
ApplyPeriod ==
    /\ calc.pc = "unapplied"
    /\ calc.f = "period"
    /\ calc' = Applied(PulsePeriod([FreshPulse EXCEPT !.freq = calc.in.freq,
                                                       !.pitch = calc.in.pitch]))
    /\ UNCHANGED <<rom, coreVars, hdr, dec, i4, wav, quirk>>

\* The step of a noise frame with the noise_params given
ApplyStep ==
    /\ calc.pc = "unapplied"
    /\ calc.f = "step"
    /\ calc' = Applied(NoiseStep(calc.in))
    /\ UNCHANGED <<rom, coreVars, hdr, dec, i4, wav, quirk>>

\* The channel after the command the bytes decode to in SFX pulse kind
Run(bytes) == Execute(FreshPulse, Parse(bytes, InBank, 1 - 1, "SfxPulse"))

\* DutyCycle with the operand byte given: the duty it sets
ApplyDuty ==
    /\ calc.pc = "unapplied"
    /\ calc.f = "duty"
    /\ calc' = Applied(Run(<<236, calc.in>>).duty)
    /\ UNCHANGED <<rom, coreVars, hdr, dec, i4, wav, quirk>>

\* PitchSweep with the operand byte given, and with the byte whose length
\* nibble differs from it by 8: the delay and the period each arms
ApplySweep ==
    /\ calc.pc = "unapplied"
    /\ calc.f = "sweep"
    /\ \E c \in {Run(<<16, calc.in>>)} :
       \E c8 \in {Run(<<16, (calc.in + 128) % 256>>)} :
          calc' = Applied([delay |-> c.pitch_sweep_delay,
                           period |-> c.pitch_sweep_period,
                           delay8 |-> c8.pitch_sweep_delay,
                           period8 |-> c8.pitch_sweep_period])
    /\ UNCHANGED <<rom, coreVars, hdr, dec, i4, wav, quirk>>

NextCalc == ApplyPeriod \/ ApplyStep \/ ApplyDuty \/ ApplySweep

SpecCalc == InitCalc /\ [][NextCalc]_vars

Done(f) == calc.pc = "applied" /\ calc.f = f

\* The period for freq' = (freq + offset) mod 2048
PeriodFor(offset) == 8 * (2048 - ((calc.in.freq + offset) % 2048))

\* C24 (amended): a pulse frame's period is 8 * (2048 - freq') samples with
\* freq' = (freq + pitch as u8) & 0x7FF: the pitch is added as the unsigned
\* byte of its two's complement, so a negative pitch p raises freq by
\* 256 - |p| modulo 2048
C24_PitchAddedAsByte ==
    Done("period") => calc.out = PeriodFor((calc.in.pitch + 256) % 256)

\* C24 as stated: a negative pitch p lowers freq' by |p| modulo 2048
C24_PitchAddedSigned ==
    Done("period") => calc.out = PeriodFor(calc.in.pitch)

\* freq 0x700 with pitch -1: freq' = 0x7FF, the period is 8 samples
C24_Witness ==
    /\ Done("period")
    /\ calc.in = [freq |-> 1792, pitch |-> 0 - 1]
    /\ calc.out = 8

\* The step the formula gives for a noise_params byte
StepFor(params) ==
    LET d == params % 8
        e == params \div 16
        s == IF e = 14 THEN 12 ELSE IF e = 15 THEN 13 ELSE e
    IN  IF d = 0 THEN Pow2(s + 1) ELSE 2 * d * Pow2(s + 1)

\* C27: for every noise_params byte the step is floor(2 * d * 2^(s + 1))
\* with d = params & 7 (0.5 when zero) and s = params >> 4 (s & 0xD above
\* 0xD), and it is at least 2
C27_StepFormula ==
    Done("step") => (calc.out = StepFor(calc.in) /\ calc.out >= 2)

\* params 0xF7: s = 0xF & 0xD = 13, d = 7, the step is 2 * 7 * 2^14
C27_Witness ==
    /\ Done("step")
    /\ calc.in = 247
    /\ calc.out = 229376

\* params 0x00: the smallest step
C27_WitnessLeast ==
    /\ Done("step")
    /\ calc.in = 0
    /\ calc.out = 2

\* C28: after DutyCycle the duty byte is four copies of one 2-bit value,
\* for every operand byte
C28_DutyFourCopies ==
    Done("duty") => \E a \in 0..3 : calc.out = 85 * a

\* What holds: for the operands 0..3
C28_DutyFourCopiesOfOperand ==
    (Done("duty") /\ calc.in \in 0..3) => calc.out = 85 * calc.in

\* C29: the encoded PitchSweep lengths n and n + 8 arm the same delay and
\* the same period
C29_LengthModuloEight ==
    Done("sweep") =>
        /\ calc.out.delay = calc.out.delay8
        /\ calc.out.period = calc.out.period8

\* What the command arms: the encoded length nibble as it is
C29_LengthAsEncoded ==
    Done("sweep") =>
        /\ calc.out.delay = calc.in \div 16
        /\ calc.out.period = calc.in \div 16

\* ------------------------------------------------------------------------
\* The cadence of the noise LFSR

\* A noise channel whose last call played a NoiseNote, which sets the LFSR
\* to its initial value, and one frame of it: the frame is the channel's
\* notes.emitted-th
NoiseNotePlayed ==
    /\ chan # NoChan
    /\ chan.channel = "SfxNoise"
    /\ notes.on
    /\ notes.emitted >= 1
    /\ ~chan.is_done
    /\ last.out = "Frame"
    /\ last.cmds # <<>>
    /\ LastCmd.op = "NoiseNote"

\* The LFSR after n advances from its initial value
NoiseAfter(n) == NoiseAdvanceN(32767, Bit(chan.noise_params, 3) = 1, n)

\* The multiples of step among the 1-based indices of the samples of the
\* first n frames
MultiplesWithin(n) == (n * SAMPLES_PER_FRAME) \div StepFor(chan.noise_params)

\* C26: the LFSR advances on exactly the samples whose 1-based index, counted
\* over the channel's lifetime, is a multiple of step: in the channel's F-th
\* frame it advances once for every such index within the frame
C26_CadenceOverLifetime ==
    NoiseNotePlayed =>
        chan.noise_buffer =
            NoiseAfter(MultiplesWithin(notes.emitted)
                          - MultiplesWithin(notes.emitted - 1))

\* What holds: the index starts at 0 with every frame, so every frame
\* advances the LFSR ceil(SAMPLES_PER_FRAME / step) times
C26_CadencePerFrame ==
    NoiseNotePlayed =>
        chan.noise_buffer =
            NoiseAfter(CeilDiv(SAMPLES_PER_FRAME, StepFor(chan.noise_params)))

\* ------------------------------------------------------------------------
\* The mixer of src/sound.rs: its constructor measures the pulse channels
\* with Channel::len, and its next() resets the noise channel's pitch

SomeLen(n) == [k |-> "Some", len |-> n]

NoLen == [k |-> "None", len |-> 0]

\* todo!() for a command Channel::len has no arm for, or a decoder's panic
PanicLen == [k |-> "Panic", len |-> 0]

\* The loop of Channel::len
RECURSIVE LenLoop(_, _, _, _, _, _, _, _)
LenLoop(image, bank, addr, channel, len, loop_counter, leftovers, result) ==
    LET cmd  == Parse(image, bank, addr, channel)
        next == (addr + CmdLen(cmd)) % 65536
        subframes == (len + 256) * (cmd.length + 1) + leftovers
    IN  CASE cmd.op = "Return" -> SomeLen(result)
          [] cmd.op = "ExecuteMusic" ->
               LenLoop(image, bank, next, to_muisc(channel), len, loop_counter,
                       leftovers, result)
          [] cmd.op \in {"DutyCycle", "DutyCyclePattern"} ->
               LenLoop(image, bank, next, channel, len, loop_counter,
                       leftovers, result)
          [] cmd.op = "Loop" ->
               IF cmd.count = 0 THEN NoLen
               ELSE IF loop_counter < cmd.count
               THEN LenLoop(image, bank, cmd.addr, channel, len,
                            loop_counter + 1, leftovers, result)
               ELSE LenLoop(image, bank, next, channel, len, loop_counter,
                            leftovers, result)
          [] cmd.op \in {"SquareNote", "NoiseNote"} ->
               LenLoop(image, bank, next, channel, len, loop_counter,
                       subframes % 256,
                       result + SAMPLES_PER_FRAME * Shr(subframes, 8))
          [] OTHER -> PanicLen

\* Channel::len of a slot's channel; an empty slot has none to measure
ChannelLen(image, slot, len) ==
    LenLoop(image, slot.bank, slot.addr, slot.channel, len, 1, 1 - 1, 1 - 1)

\* sound.pulse.as_ref().map(|c| c.len(length).unwrap()).unwrap(): the length
\* in samples, or -1 when either unwrap() panics
PulseLen(image, slot, len) ==
    IF slot = NoChan THEN 0 - 1
    ELSE LET l == ChannelLen(image, slot, len)
         IN  IF l.k = "Some" THEN l.len ELSE 0 - 1

\* The channel iterators of SoundIterator::new of src/sound.rs: the noise
\* channel is built with length 0, every length is taken plus 0x100
QuirkChans(snd, p, len) ==
    [s \in DOMAIN snd |->
        IF snd[s] = NoChan THEN NoChan
        ELSE ChannelIteratorNew(snd[s].addr, snd[s].channel, p,
                                (IF s = "noise" THEN 0 ELSE len) + 256)]

\* A tick that resets the pitch whenever the pulse channels are fading out:
\* the variant the flag pitch_has_been_reset is tested against
ResetDueEveryTick(a) == a.fadeout

\* fadeout && !self.pitch_has_been_reset
ResetDue(a) == a.fadeout /\ ~a.reset

\* The tick of next() in src/sound.rs, from slot number k on.  a holds the
\* channels, the buffer, done, fadeout, pitch_has_been_reset (reset), and
\* for the noise channel what the tick did to it: whether reset_pitch() was
\* called (did), the channel before and after that call, and the commands
\* its next() decoded.
RECURSIVE QuirkTickFrom(_, _, _, _)
QuirkTickFrom(image, bank, a, k) ==
    IF k > Len(Slots) THEN a
    ELSE LET s == Slots[k]
         IN  IF a.chans[s] = NoChan THEN QuirkTickFrom(image, bank, a, k + 1)
             ELSE LET fire == s = "noise" /\ ResetDue(a)
                      c0 == IF fire THEN reset_pitch(a.chans[s]) ELSE a.chans[s]
                      r  == ChannelNext(image, bank, c0)
                      a1 == [a EXCEPT !.chans[s] = r.ch,
                                      !.reset = a.reset \/ fire,
                                      !.did = fire,
                                      !.before = IF s = "noise" THEN a.chans[s]
                                                 ELSE a.before,
                                      !.pulled = IF s = "noise" THEN c0
                                                 ELSE a.pulled,
                                      !.cmds = IF s = "noise" THEN r.cmds
                                               ELSE a.cmds]
                  IN  CASE r.out \in {"Abort", "Hang"} ->
                             [a1 EXCEPT !.halt = r.out]
                        [] r.out = "Frame" ->
                             QuirkTickFrom(image, bank,
                                 [a1 EXCEPT
                                    !.buffer[s] = r.vol,
                                    !.done = FALSE,
                                    !.fadeout =
                                        IF s \in {"pulse1", "pulse2"}
                                        THEN a.fadeout /\ only_fadeout_left(r.ch)
                                        ELSE a.fadeout],
                                 k + 1)
                        [] r.out = "None" ->
                             QuirkTickFrom(image, bank, a1, k + 1)

\* What a tick starts with
TickStart(q) ==
    [chans |-> q.chans, buffer |-> EmptyBuffer, done |-> TRUE,
     fadeout |-> TRUE, reset |-> q.pitch_has_been_reset, halt |-> "No",
     did |-> FALSE, before |-> NoChan, pulled |-> NoChan, cmds |-> <<>>]

\* usize::max
usize_max(a, b) == IF a < b THEN b ELSE a

\* Sounds the mixer of src/sound.rs is built from: two pulse channels and a
\* noise channel whose notes end before, with and after the pulse channels'
\* last notes; and sounds its constructor is not written for
QuirkCases ==
    {Case(<<Entry(5, Desc(t, l, 3, 1, 2, Freq0)),
            Entry(6, Desc("note", m, 2, 1, 0, Freq0)),
            Entry(8, Desc("ntwo", x, 4, 2, v, q))>>, p, 0) :
        t \in {"note", "loop", "dutyc"}, l \in {0, 2}, m \in {0, 1},
        x \in {0, 3}, v \in {0, 216}, q \in {0, 2}, p \in {0, 0 - 1, 85}}
    \cup {Case(<<Entry(5, Desc("note", 1, 3, 1, 0, Freq0)),
                 Entry(6, Desc("note", 0, 2, 1, 0, Freq0))>>, 0, n) :
             n \in {0, 127, 0 - 128}}
    \cup {Case(<<Entry(5, d), Entry(6, Desc("note", 0, 2, 1, 0, Freq0))>>, 0, 0) :
             d \in {Desc("ret", 0, 0, 0, 0, 0), Desc("hang", 0, 0, 0, 0, 0),
                    Desc("jump", 1, 2, 1, 0, Freq0),
                    Desc("sweep", 1, 2, 1, 17, Freq0),
                    Desc("raw", 0, 0, 0, 0, 0)}}
    \cup {Case(<<Entry(5, Desc("ret", 0, 0, 0, 0, 0)),
                 Entry(6, Desc("ret", 0, 0, 0, 0, 0))>>, 0, 0)}
    \cup {Case(<<Entry(id, Desc("note", 0, 2, 1, 0, Freq0))>>, 0, 0) :
             id \in {5, 6}}
    \cup {Case(<<Entry(8, Desc("nnote", 1, 4, 2, 216, 0))>>, 0, 0),
          Case(<<Entry(5, Desc("note", 0, 2, 1, 0, Freq0)),
                 Entry(8, Desc("nnote", 1, 4, 2, 216, 0))>>, 0, 0)}

\* A Sound handed to Sound::pcm of src/sound.rs
InitQuirk ==
    /\ \E c \in QuirkCases :
          /\ rom = BuildRom(c.es)
          /\ pitch = c.p
          /\ length = c.n
    /\ sound = SoundNew(rom, InBank, HeaderAddr)
    /\ mix = [chans |-> EmptySound, index |-> 0, buffer |-> EmptyBuffer]
    /\ out = IdleOut
    /\ frames = 0
    /\ sched = IdleSched
    /\ probe = IdleProbe
    /\ duration = IdleDuration
    /\ chan = NoChan
    /\ last = IdleLast
    /\ notes = IdleNotes
    /\ hist = IdleHist
    /\ hdr = IdleHdr
    /\ dec = IdleDec
    /\ i4 = IdleI4
    /\ wav = IdleWav
    /\ calc = IdleCalc
    /\ quirk = [pc |-> "unbuilt"]

\* The iterator SoundIterator::new returns.  Next to its fields it keeps
\* what its last tick did (tick) and bookkeeping: the ticks run through,
\* the calls of reset_pitch(), the tick of the first of them, and the first
\* tick in which every pulse channel that yielded a frame had only its
\* fade-out left (0: none yet)
Built(at) ==
    [pc |-> "built",
     chans |-> QuirkChans(sound.slots, pitch, length),
     index |-> 0, buffer |-> EmptyBuffer,
     reset_pitch_at |-> at, pitch_has_been_reset |-> FALSE,
     out |-> "NoCall",
     tick |-> TickStart([chans |-> EmptySound, pitch_has_been_reset |-> FALSE]),
     ticks |-> 0, resets |-> 0, reset_tick |-> 0, fade_tick |-> 0]

\* SoundIterator::new of src/sound.rs.  Either unwrap() panics on a pulse
\* channel that is absent or whose len() is None; max(..) - SAMPLES_PER_FRAME
\* on usize panics when overflow checks are compiled in and wraps otherwise.
QuirkNew ==
    /\ sound.ok
    /\ quirk.pc = "unbuilt"
    /\ \E l1 \in {PulseLen(rom, sound.slots.pulse1, length)} :
       \E l2 \in {PulseLen(rom, sound.slots.pulse2, length)} :
          IF l1 < 0 \/ l2 < 0
          THEN quirk' = [pc |-> "panicked"]
          ELSE IF usize_max(l1, l2) < SAMPLES_PER_FRAME
          THEN \/ quirk' = [pc |-> "panicked"]
               \/ quirk' = Built(0 - 1)
          ELSE quirk' = Built(usize_max(l1, l2) - SAMPLES_PER_FRAME)
    /\ UNCHANGED <<rom, coreVars, hdr, dec, i4, wav, calc>>

\* The bookkeeping after a tick t that ran through every channel; ticks
\* are numbered up to MaxFrames + 1 and resets counted up to MaxHist
Booked(q, t) ==
    LET n    == Min(q.ticks + 1, MaxFrames + 1)
        fade == \A s \in {"pulse1", "pulse2"} :
                    t.buffer[s] # NoFrame => t.chans[s].is_done
    IN  [q EXCEPT !.chans = t.chans, !.buffer = t.buffer,
                  !.pitch_has_been_reset = t.reset,
                  !.tick = t,
                  !.ticks = n,
                  !.resets = Min(q.resets + (IF t.did THEN 1 ELSE 0), MaxHist),
                  !.reset_tick = IF t.did /\ q.reset_tick = 0 THEN n
                                 ELSE q.reset_tick,
                  !.fade_tick = IF fade /\ q.fade_tick = 0 THEN n
                                ELSE q.fade_tick]

\* One call of SoundIterator::next of src/sound.rs; the sample it serves
\* is not kept
QuirkNext ==
    /\ quirk.pc = "built"
    /\ quirk.out \notin {"Abort", "Hang"}
    /\ quirk.index < MaxFrames * SAMPLES_PER_FRAME
    /\ \/ quirk.index % SAMPLES_PER_FRAME < MaxWalk
       \/ quirk.index % SAMPLES_PER_FRAME = SAMPLES_PER_FRAME - 1
    /\ IF AtFrameStart(quirk.index)
       THEN \E t \in {QuirkTickFrom(rom, InBank, TickStart(quirk), 1)} :
               CASE t.halt # "No" ->
                      quirk' = [quirk EXCEPT !.chans = t.chans,
                                             !.buffer = t.buffer,
                                             !.pitch_has_been_reset = t.reset,
                                             !.out = t.halt]
                 [] t.halt = "No" /\ t.done ->
                      quirk' = [Booked(quirk, t) EXCEPT !.out = "None"]
                 [] t.halt = "No" /\ ~t.done ->
                      quirk' = [Booked(quirk, t) EXCEPT
                                   !.out = "Some", !.index = quirk.index + 1]
       ELSE quirk' = [quirk EXCEPT !.out = "Some", !.index = quirk.index + 1]
    /\ UNCHANGED <<rom, coreVars, hdr, dec, i4, wav, calc>>

\* The calls that take the samples of the current frame up to its last but
\* one
QuirkNextMany ==
    /\ quirk.pc = "built"
    /\ quirk.index % SAMPLES_PER_FRAME >= MaxWalk
    /\ quirk.index % SAMPLES_PER_FRAME < SAMPLES_PER_FRAME - 1
    /\ quirk' = [quirk EXCEPT
                    !.out = "Some",
                    !.index = quirk.index + (SAMPLES_PER_FRAME - 1)
                                 - (quirk.index % SAMPLES_PER_FRAME)]
    /\ UNCHANGED <<rom, coreVars, hdr, dec, i4, wav, calc>>

NextQuirk == QuirkNew \/ QuirkNext \/ QuirkNextMany

SpecQuirk == InitQuirk /\ [][NextQuirk]_vars

\* The NoiseNotes the noise channel decoded in the last tick
NotesOfTick ==
    {i \in 1..Len(quirk.tick.cmds) : quirk.tick.cmds[i].op = "NoiseNote"}

\* The value of the last of them
LastNoteValue ==
    quirk.tick.cmds[CHOOSE i \in NotesOfTick : \A k \in NotesOfTick : k <= i].value

C31_WitnessBefore ==
    /\ quirk.pc = "built"
    /\ pitch = 0 - 1
    /\ quirk.fade_tick = 0
    /\ quirk.ticks >= 2
    /\ NotesOfTick # {}
    /\ LastNoteValue = 216
    /\ quirk.chans.noise.noise_params = 215

C33_NewSucceeds == quirk.pc # "panicked"

\* What holds: it succeeds only when both pulse channels are there and
\* Channel::len finds the Return of each
C33_NewNeedsBothPulseLengths ==
    quirk.pc = "built" =>
        \A s \in {"pulse1", "pulse2"} :
            /\ sound.slots[s] # NoChan
            /\ ChannelLen(rom, sound.slots[s], length).k = "Some"

\* ------------------------------------------------------------------------
\* The mixer's schedule

\* The channels the mixer holds, in the order pulse1, pulse2, wave, noise
PresentInOrder ==
    SelectSeq(<<"pulse1", "pulse2", "wave", "noise">>,
              LAMBDA s : mix.chans[s] # NoChan)

\* The last call of next() was made at a frame tick and returned
TickReturned ==
    \/ out.k = "None"
    \/ out.k = "Some" /\ mix.index % SAMPLES_PER_FRAME = 1

\* The ticks that returned a sample so far
TicksServed == (mix.index + SAMPLES_PER_FRAME - 1) \div SAMPLES_PER_FRAME

\* C32: a call of the mixer's next() at a frame tick calls next() once on
\* every channel it holds, in the order pulse1, pulse2, wave, noise, and a
\* call between ticks calls none; so after k ticks every channel that has
\* not returned None has yielded k frames
C32_LockStep ==
    (sound.ok /\ out.k \in {"Some", "None"}) =>
        /\ TickReturned => sched.order = PresentInOrder
        /\ ~TickReturned => sched.order = <<>>
        /\ \A s \in DOMAIN mix.chans :
              (mix.chans[s] # NoChan /\ ~sched.ended[s]) =>
                  sched.made[s] = TicksServed

\* Three channels were called in a tick, the third tick of the sound or a
\* later one; one of them is at its end, having yielded fewer frames, and
\* another has yielded a frame in every tick
C32_Witness ==
    /\ sound.ok
    /\ out.k = "Some"
    /\ mix.index % SAMPLES_PER_FRAME = 1
    /\ sched.order = <<"pulse1", "pulse2", "noise">>
    /\ TicksServed >= 3
    /\ \E s \in DOMAIN mix.chans : sched.ended[s] /\ sched.made[s] < TicksServed
    /\ \E s \in DOMAIN mix.chans : ~sched.ended[s] /\ sched.made[s] = TicksServed

\* ------------------------------------------------------------------------
\* A channel after its Return

\* C34: a call of next() on a channel that has executed Return decodes no
\* command and leaves addr, channel, loop_counter, note_delay_fraction,
\* is_infinite and is_done as they are
C34_DoneDecodesNothing ==
    [][(chan # NoChan /\ chan.is_done) =>
          /\ last'.cmds = <<>>
          /\ chan'.addr = chan.addr
          /\ chan'.channel = chan.channel
          /\ chan'.loop_counter = chan.loop_counter
          /\ chan'.note_delay_fraction = chan.note_delay_fraction
          /\ chan'.is_infinite = chan.is_infinite
          /\ chan'.is_done]_vars

\* A call after the Return yielded a frame of the fade-out and changed the
\* volume; the fraction the last note left is still there
C34_Witness ==
    /\ chan # NoChan
    /\ chan.is_done
    /\ last.out = "Frame"
    /\ last.cmds = <<>>
    /\ chan.volume # last.vol
    /\ chan.note_delay_fraction # 0
    /\ chan.loop_counter > 1

\* ------------------------------------------------------------------------
\* The indices the WAV writer reads

\* C35: for a source of a positive whole number of frames, every index the
\* body loop reads, floor and ceil of resampled_index * resample_rate_ratio,
\* is below the source length: the writing does not stop on an index
C35_IndicesInRange ==
    (/\ wav.pc = "written"
     /\ wav.len > 0
     /\ wav.len % SAMPLES_PER_FRAME = 0) => OutOfRange(wav.len) = {}

\* What the writer does: only the last index of the loop can be out of
\* range, and then next_index is the source length itself
C35_OnlyLastIndex ==
    wav.pc = "written" =>
        \A ri \in OutOfRange(wav.len) :
            /\ ri = ResampledLength(wav.len) - 1
            /\ NextIndex(ri) = wav.len

\* ------------------------------------------------------------------------
\* Termination of one call

\* C36: every call of next() returns after decoding finitely many commands:
\* no call comes back to a state of the iterator it has already decoded from
C36_NextReturns == chan # NoChan => last.out # "Hang"

\* What the decoder does: a call that never returns has decoded a Loop of
\* count 0, every command it decoded left no note pending, and the loop
\* counter is where the call found it
C36_HangsInEndlessLoop ==
    (chan # NoChan /\ last.out = "Hang") =>
        /\ \E k \in DOMAIN last.cmds :
              last.cmds[k].op = "Loop" /\ last.cmds[k].count = 0
        /\ \A k \in DOMAIN last.cmds :
              last.cmds[k].op \notin {"SquareNote", "NoiseNote", "Return"}
        /\ chan.is_infinite = "True"
        /\ chan.note_delay = 0

\* ------------------------------------------------------------------------
\* After None

\* C37: a channel that has returned None returns None at every later call
\* and its state stays as it is; once the mixer's next() has returned None
\* every later call returns None, and index stays where it is, a multiple
\* of SAMPLES_PER_FRAME
C37_NoneStays ==
    [][/\ \A s \in DOMAIN mix.chans :
             sched.ended[s] =>
                 /\ mix'.chans[s] = mix.chans[s]
                 /\ mix'.buffer[s] = NoFrame
                 /\ sched'.made[s] = sched.made[s]
                 /\ sched'.ended[s]
       /\ out.k = "None" =>
             /\ out'.k = "None"
             /\ mix'.index = mix.index
             /\ mix'.index % SAMPLES_PER_FRAME = 0
             /\ mix'.chans = mix.chans]_vars

\* The mixer has returned None twice, after frames of two channels of which
\* one was at its end two ticks or more before the other
C37_Witness ==
    /\ sound.ok
    /\ out.k = "None"
    /\ sched.quiet = 2
    /\ mix.index >= 3 * SAMPLES_PER_FRAME
    /\ mix.index % SAMPLES_PER_FRAME = 0
    /\ \E s \in DOMAIN mix.chans :
          sched.ended[s] /\ sched.made[s] > 0 /\ sched.made[s] + 2 <= TicksServed
    /\ \E s \in DOMAIN mix.chans : sched.ended[s] /\ sched.made[s] = TicksServed

\* ------------------------------------------------------------------------
\* is_done and is_infinite

\* A call's commands hold a Return or a Loop of count 0
EndMarked(cmds) ==
    \E k \in DOMAIN cmds :
        \/ cmds[k].op = "Return"
        \/ cmds[k].op = "Loop" /\ cmds[k].count = 0

\* C38: is_done is set exactly when is_infinite() is Some(false), and
\* is_infinite() is None before the first call and stays None as long as no
\* call has executed a Return or a Loop of count 0
C38_DoneIsFinite ==
    /\ [](chan # NoChan =>
            /\ chan.is_done <=> chan.is_infinite = "False"
            /\ last = IdleLast => chan.is_infinite = "None")
    /\ [][(chan # NoChan /\ chan.is_infinite = "None") =>
             (chan'.is_infinite = "None" <=> ~EndMarked(last'.cmds))]_vars

\* A stream that begins with a Loop of count 0 jumping forward has come to
\* its Return: the channel is finished and finite, is_infinite having been
\* Some(true) in the calls before
C38_Witness ==
    /\ chan # NoChan
    /\ Len(rom) >= 5
    /\ rom[4] = 254
    /\ rom[5] = 0
    /\ chan.is_done
    /\ chan.is_infinite = "False"
    /\ last.out = "Frame"
    /\ Len(last.cmds) = 1
    /\ last.cmds[1].op = "Return"

\* A call has left a note pending with no end in sight: is_infinite() is
\* still None
C38_WitnessNone ==
    /\ chan # NoChan
    /\ last.out = "Frame"
    /\ ~chan.is_done
    /\ chan.is_infinite = "None"
    /\ last.cmds # <<>>

\* ------------------------------------------------------------------------
\* The duty pattern over the frames

\* The duty byte d rotated left by two bits n times
RECURSIVE Rotated(_, _)
Rotated(d, n) == IF n = 0 THEN d ELSE Rotated(RotateLeft2(d), n - 1)

\* The operand the n-th frame after DutyCyclePattern(a, b, c, d) is to use:
\* d, a, b, c, d, ...
SlotOfFrame(pat, n) == <<pat[4], pat[1], pat[2], pat[3]>>[((n - 1) % 4) + 1]

\* The frames counted since the pattern was set, when the count is exact
DutyFrames == IF hist.nth < MaxDutyFrames THEN hist.nth ELSE 0

\* C39: a pulse frame's duty index is in 0..=3; the n-th pulse frame after
\* DutyCyclePattern(a, b, c, d) uses the operand d, a, b, c, d, ... and
\* leaves the duty byte rotated left by two bits n times; noise frames
\* leave the duty byte as the command set it
C39_DutyRotates ==
    chan # NoChan =>
        /\ (last.out = "Frame" /\ chan.channel = "SfxPulse") =>
              last.duty \in 0..3
        /\ (chan.channel = "SfxPulse" /\ hist.pat # <<>>) =>
              /\ chan.duty = Rotated(DutyPattern(hist.pat[1], hist.pat[2],
                                                 hist.pat[3], hist.pat[4]),
                                     DutyFrames)
                    \/ hist.nth = MaxDutyFrames
              /\ (last.out = "Frame" /\ DutyFrames >= 1) =>
                    last.duty = SlotOfFrame(hist.pat, DutyFrames)
        /\ (chan.channel = "SfxNoise" /\ hist.pat # <<>>) =>
              chan.duty = DutyPattern(hist.pat[1], hist.pat[2],
                                      hist.pat[3], hist.pat[4])

\* The sixth frame after DutyCyclePattern(0, 1, 2, 3) used the operand a,
\* as the second did
C39_Witness ==
    /\ chan # NoChan
    /\ chan.channel = "SfxPulse"
    /\ hist.pat = <<0, 1, 2, 3>>
    /\ hist.nth = 6
    /\ last.out = "Frame"
    /\ last.duty = 0

\* A noise channel has yielded three frames after a DutyCyclePattern
C39_WitnessNoise ==
    /\ chan # NoChan
    /\ chan.channel = "SfxNoise"
    /\ hist.pat = <<0, 1, 2, 3>>
    /\ hist.nth >= 3
    /\ last.out = "Frame"
    /\ chan.duty = 27

\* ------------------------------------------------------------------------
\* The noise register, advance by advance

\* The values of a NoiseNote taken: 15-bit and 7-bit mode, with the step of
\* one sample and with a long one
LfsrValues == {0, 8, 208, 216}

InitLfsr ==
    /\ rom = <<>>
    /\ CoreIdle
    /\ hdr = IdleHdr
    /\ dec = IdleDec
    /\ i4 = IdleI4
    /\ wav = IdleWav
    /\ quirk = IdleQuirk
    /\ \E value \in LfsrValues :
          calc = [pc |-> "unapplied", f |-> "lfsr", in |-> value]

\* A NoiseNote with the value given, executed by a fresh noise channel: the
\* noise_params and the noise_buffer it leaves
ApplyNote ==
    /\ calc.pc = "unapplied"
    /\ calc.f = "lfsr"
    /\ \E c \in {Execute(ChannelIteratorNew(1 - 1, "SfxNoise", 1 - 1, NoiseLength),
                         Parse(<<32, 241, calc.in>>, InBank, 1 - 1, "SfxNoise"))} :
          calc' = [pc |-> "running", f |-> "lfsr", in |-> c.noise_params,
                   out |-> c.noise_buffer]
    /\ UNCHANGED <<rom, coreVars, hdr, dec, i4, wav, quirk>>

\* One advance of the register, in the mode bit 3 of noise_params selects
ApplyAdvance ==
    /\ calc.pc = "running"
    /\ calc' = [calc EXCEPT
                   !.out = NoiseAdvance(calc.out, Bit(calc.in, 3) = 1)]
    /\ UNCHANGED <<rom, coreVars, hdr, dec, i4, wav, quirk>>

NextLfsr == ApplyNote \/ ApplyAdvance

SpecLfsr == InitLfsr /\ [][NextLfsr]_vars

\* C40: noise_buffer is a non-zero 15-bit value after a NoiseNote and after
\* any number of advances, in 15-bit and in 7-bit mode
C40_BufferInRange == calc.pc = "running" => calc.out \in 1..32767

\* The register has come down to 1 in 7-bit mode, seven advances after the
\* note
C40_Witness ==
    /\ calc.pc = "running"
    /\ Bit(calc.in, 3) = 1
    /\ calc.out = 1

\* The register has come to 1 in 15-bit mode, as far from the note's
\* 0x7FFF as it gets
C40_WitnessLong ==
    /\ calc.pc = "running"
    /\ Bit(calc.in, 3) = 0
    /\ calc.out = 1

==========================================================================
